---------------------------- MODULE Spec2Model ----------------------------
(***************************************************************************)
(* Narrative / game-state desynchronisation detection.                     *)
(*                                                                         *)
(* Strings are sequences of one-character strings, so that str.lower(),    *)
(* the `in` substring test, str.split() and len() are computed the way     *)
(* the Python code computes them.  Dictionaries are functions whose        *)
(* DOMAIN is the set of keys that are present; dict.get(k, d) is Get.      *)
(***************************************************************************)
EXTENDS Integers, Sequences, FiniteSets, TLC

(***************************************************************************)
(* Bounds of the model.                                                    *)
(***************************************************************************)
MaxTextLen == 2
MaxNameLen == 3
MaxNpcs == 2
MaxTurns == 2
MaxSessions == 2
MaxCalls == 2
MaxResults == 2

(***************************************************************************)
(* Python string primitives.                                               *)
(***************************************************************************)
Range(f) == {f[i] : i \in DOMAIN f}

UpperLetters ==
    <<"A", "B", "C", "D", "E", "F", "G", "H", "I", "J", "K", "L", "M",
      "N", "O", "P", "Q", "R", "S", "T", "U", "V", "W", "X", "Y", "Z">>

LowerLetters ==
    <<"a", "b", "c", "d", "e", "f", "g", "h", "i", "j", "k", "l", "m",
      "n", "o", "p", "q", "r", "s", "t", "u", "v", "w", "x", "y", "z">>

\* the lower-case letter of every upper-case letter
ToLower == [c \in Range(UpperLetters) |->
               LowerLetters[CHOOSE i \in 1..26 : UpperLetters[i] = c]]

\* the upper-case letter of every lower-case letter
ToUpper == [c \in Range(LowerLetters) |->
               UpperLetters[CHOOSE i \in 1..26 : LowerLetters[i] = c]]

\* str.lower() on one character
LowerChar(c) == IF c \in DOMAIN ToLower THEN ToLower[c] ELSE c

\* str.upper() on one character
UpperChar(c) == IF c \in DOMAIN ToUpper THEN ToUpper[c] ELSE c

\* str.lower()
Lower(s) == [i \in 1..Len(s) |-> LowerChar(s[i])]

\* str.upper()
Upper(s) == [i \in 1..Len(s) |-> UpperChar(s[i])]

\* Python `sub in s` on strings: the empty string is in every string
Contains(sub, s) ==
    \E i \in 0..(Len(s) - Len(sub)) : \A j \in 1..Len(sub) : s[i + j] = sub[j]

IsSpace(c) == c = " "

\* str.split(): the maximal runs of non-whitespace characters, in order
RECURSIVE SplitFrom(_, _, _)
SplitFrom(s, i, cur) ==
    IF i > Len(s)
    THEN (IF cur = <<>> THEN <<>> ELSE <<cur>>)
    ELSE IF IsSpace(s[i])
         THEN (IF cur = <<>> THEN <<>> ELSE <<cur>>) \o SplitFrom(s, i + 1, <<>>)
         ELSE SplitFrom(s, i + 1, Append(cur, s[i]))

Split(s) == SplitFrom(s, 1, <<>>)

(***************************************************************************)
(* SimpleEntityValidator.validate_entity                                   *)
(***************************************************************************)
\* mutant: the text is compared as written, only the name is lowered
validate_entity_text_not_lowered(text_, entity_) ==
    LET text_lower   == text_
        entity_lower == Lower(entity_)
        name_parts   == Split(entity_)
    IN  \/ Contains(entity_lower, text_lower)
        \/ /\ Len(name_parts) > 1
           /\ \E k \in 1..Len(name_parts) : Contains(Lower(name_parts[k]), text_lower)

\* mutant: the name parts are tried for a one-token name as well
validate_entity_single_part_fallback(text_, entity_) ==
    LET text_lower   == Lower(text_)
        entity_lower == Lower(entity_)
        name_parts   == Split(entity_)
    IN  \/ Contains(entity_lower, text_lower)
        \/ \E k \in 1..Len(name_parts) : Contains(Lower(name_parts[k]), text_lower)

validate_entity(text_, entity_) ==
    LET text_lower   == Lower(text_)
        entity_lower == Lower(entity_)
        name_parts   == Split(entity_)
    IN  \/ Contains(entity_lower, text_lower)
        \/ /\ Len(name_parts) > 1
           /\ \E k \in 1..Len(name_parts) : Contains(Lower(name_parts[k]), text_lower)

(***************************************************************************)
(* Inputs of the matcher.                                                  *)
(***************************************************************************)
Alphabet == {"a", "A", "b", " "}

StringsUpTo(n) == UNION {[1..k -> Alphabet] : k \in 0..n}

TheDragonRoared ==
    <<"T", "h", "e", " ", "D", "R", "A", "G", "O", "N", " ", "r", "o", "a", "r", "e", "d">>

dragon == <<"d", "r", "a", "g", "o", "n">>

CassianApproached ==
    <<"C", "a", "s", "s", "i", "a", "n", " ", "a", "p", "p", "r", "o", "a", "c", "h", "e", "d">>

PrinceCassianArcanus ==
    <<"P", "r", "i", "n", "c", "e", " ", "C", "a", "s", "s", "i", "a", "n", " ",
      "A", "r", "c", "a", "n", "u", "s">>

SirGarrett == <<"S", "i", "r", " ", "G", "a", "r", "r", "e", "t", "t">>

YesSirHeSaid ==
    <<"Y", "e", "s", " ", "s", "i", "r", ",", " ", "h", "e", " ", "s", "a", "i", "d">>

MatcherTexts ==
    StringsUpTo(MaxTextLen) \cup {TheDragonRoared, CassianApproached, YesSirHeSaid}

MatcherNames ==
    StringsUpTo(MaxNameLen) \cup {dragon, PrinceCassianArcanus, SirGarrett}

(***************************************************************************)
(* Python dictionaries.  A dict is a function whose DOMAIN holds the keys  *)
(* that are present; an ordered dict of records (npc_data) is a sequence   *)
(* of [key, info] pairs with distinct keys, in insertion order.            *)
(***************************************************************************)
EmptyDict == <<>>

\* dict.get(k, default)
Get(d, k, default) == IF k \in DOMAIN d THEN d[k] ELSE default

\* the dicts that hold key k with one of the values vals, or do not hold it
Opt(k, vals) == {EmptyDict} \cup {k :> v : v \in vals}

\* npc_data.get(name, {})
NpcGet(npc_data, name) ==
    IF \E i \in 1..Len(npc_data) : npc_data[i].key = name
    THEN npc_data[CHOOSE i \in 1..Len(npc_data) : npc_data[i].key = name].info
    ELSE EmptyDict

\* a combat participant is a string or a dict
Str(s) == [str |-> s]

Dict(d) == [dict |-> d]

IsStr(p) == "str" \in DOMAIN p

(***************************************************************************)
(* Names and places.                                                       *)
(***************************************************************************)
Zara == <<"Z", "a", "r", "a">>

Finn == <<"F", "i", "n", "n">>

Mira == <<"M", "i", "r", "a">>

Bran == <<"B", "r", "a", "n">>

Orc == <<"O", "r", "c">>

Crypt == <<"C", "r", "y", "p", "t">>

Tower == <<"T", "o", "w", "e", "r">>

OldCrypt == <<"O", "l", "d", " ", "C", "r", "y", "p", "t">>

Whisper ==
    <<"W", "h", "i", "s", "p", "e", "r">>

LordBlackwood ==
    <<"L", "o", "r", "d", " ", "B", "l", "a", "c", "k", "w", "o", "o", "d">>

GuardCaptain ==
    <<"G", "u", "a", "r", "d", " ", "C", "a", "p", "t", "a", "i", "n">>

Felix ==
    <<"F", "e", "l", "i", "x">>

Aldric ==
    <<"A", "l", "d", "r", "i", "c">>

GoblinChief ==
    <<"G", "o", "b", "l", "i", "n", " ", "C", "h", "i", "e", "f">>

GoblinWarrior1 ==
    <<"G", "o", "b", "l", "i", "n", " ", "W", "a", "r", "r", "i", "o", "r", " ", "1">>

GoblinWarrior2 ==
    <<"G", "o", "b", "l", "i", "n", " ", "W", "a", "r", "r", "i", "o", "r", " ", "2">>

GoblinCave ==
    <<"G", "o", "b", "l", "i", "n", " ", "C", "a", "v", "e">>

NoblesManor ==
    <<"N", "o", "b", "l", "e", "'", "s", " ", "M", "a", "n", "o", "r", " ", "-", " ", "G",
      "r", "a", "n", "d", " ", "H", "a", "l", "l">>

(***************************************************************************)
(* test_scenarios.py: the two scenarios with hidden and unconscious        *)
(* entities (the fields that the extractors or the scenarios' own          *)
(* expectations read).                                                     *)
(***************************************************************************)
HiddenCharactersState ==
    [location |-> NoblesManor,
     player_character_data |-> [name |-> Whisper, conditions |-> {"hidden"}],
     npc_data |->
        <<[key |-> LordBlackwood, info |-> [present |-> TRUE, conscious |-> TRUE]],
          [key |-> GuardCaptain, info |-> [present |-> TRUE, conscious |-> TRUE]],
          [key |-> Zara,
           info |-> [present |-> TRUE, conscious |-> TRUE, conditions |-> {"invisible"}]],
          [key |-> Felix,
           info |-> [present |-> TRUE, conscious |-> TRUE, conditions |-> {"disguised"}]]>>,
     combat_state |-> [in_combat |-> FALSE]]

HiddenCharactersExpected == {LordBlackwood, GuardCaptain, Felix}

HiddenCharactersHidden == {Whisper, Zara}

CombatInjuredState ==
    [location |-> GoblinCave,
     player_character_data |-> [name |-> Aldric, conditions |-> {"bloodied", "exhausted"}],
     npc_data |->
        <<[key |-> Mira,
           info |-> [present |-> TRUE, conscious |-> TRUE, conditions |-> {"wounded"}]],
          [key |-> GoblinChief, info |-> [present |-> TRUE, conscious |-> TRUE]],
          [key |-> GoblinWarrior1, info |-> [present |-> TRUE, conscious |-> TRUE]],
          [key |-> GoblinWarrior2,
           info |-> [present |-> TRUE, conscious |-> FALSE, conditions |-> {"dead"}]]>>,
     combat_state |->
        [in_combat |-> TRUE,
         participants |->
            <<Str(Aldric), Str(Mira), Str(GoblinChief), Str(GoblinWarrior1)>>]]

ScenarioStates == {HiddenCharactersState, CombatInjuredState}

(***************************************************************************)
(* Game states drawn for the extractors.                                   *)
(***************************************************************************)
\* the key of the i-th NPC record
NpcKeys == <<Zara, Finn, Mira>>

NpcInfos ==
    {p @@ c @@ h : p \in Opt("present", BOOLEAN),
                   c \in Opt("conscious", {FALSE}),
                   h \in Opt("hidden", {TRUE})}
    \cup {[present |-> FALSE, recently_active |-> TRUE]}

NpcDatas ==
    UNION {{[i \in 1..n |-> [key |-> NpcKeys[i], info |-> f[i]]] : f \in [1..n -> NpcInfos]} :
              n \in 0..MaxNpcs}

\* the player character: no name, an empty name, the name of the first NPC
\* record or a name of its own; marked hidden, marked unconscious, or neither
PcDatas ==
    {EmptyDict, [name |-> <<>>]}
    \cup {[name |-> n] @@ mark :
             n \in {Zara, Bran},
             mark \in {EmptyDict, [hidden |-> TRUE], [conscious |-> FALSE]}}

ParticipantLists ==
    {<<>>, <<Str(Finn)>>, <<Str(Finn), Str(Orc), Str(Finn)>>, <<Str(Zara), Str(Bran)>>}

CombatStates ==
    {[in_combat |-> FALSE, participants |-> <<Str(Finn), Str(Orc)>>],
     [in_combat |-> TRUE]}
    \cup {[in_combat |-> TRUE, participants |-> ps] : ps \in ParticipantLists}

WorldDatas == {[current_location |-> Crypt]}

GameStates ==
    {("player_character_data" :> pc) @@ ("npc_data" :> npcs) @@ cs @@ wd :
        pc \in PcDatas, npcs \in NpcDatas,
        cs \in Opt("combat_state", CombatStates),
        wd \in Opt("world_data", WorldDatas)}
    \cup ScenarioStates

(***************************************************************************)
(* CampaignAnalyzer._extract_expected_entities                             *)
(***************************************************************************)
\* None, where the code expects a dict
None == [none |-> TRUE]

\* x has the method get: it is a dict, not None and not a string (Str(s))
IsMapping(x) == "none" \notin DOMAIN x /\ "str" \notin DOMAIN x

\* _extract_expected_entities raises AttributeError: game_state, its
\* player_character_data, the record of an NPC or its combat_state has no
\* method get
ExtractRaises(gs) ==
    \/ ~IsMapping(gs)
    \/ ~IsMapping(Get(gs, "player_character_data", EmptyDict))
    \/ \E i \in 1..Len(Get(gs, "npc_data", <<>>)) : ~IsMapping(gs["npc_data"][i].info)
    \/ ~IsMapping(Get(gs, "combat_state", EmptyDict))

\* pc_data.get("name") is truthy: the key is present and the name not empty
HasName(pc_data) == "name" \in DOMAIN pc_data /\ pc_data["name"] # <<>>

\* mutant: the conscious flag is not read
NpcIncluded_ignores_conscious(npc_info) == Get(npc_info, "present", TRUE)

\* "present", True and "conscious", True: an absent flag counts as true
NpcIncluded(npc_info) ==
    Get(npc_info, "present", TRUE) /\ Get(npc_info, "conscious", TRUE)

\* entities.extend(p for p in participants if p not in entities): the
\* generator is consumed while the list grows, so a participant named twice
\* is added once
RECURSIVE ExtendWithParticipants(_, _, _)
ExtendWithParticipants(entities, participants, i) ==
    IF i > Len(participants)
    THEN entities
    ELSE LET p == participants[i].str
         IN  ExtendWithParticipants(
                 IF p \in Range(entities) THEN entities ELSE Append(entities, p),
                 participants, i + 1)

RECURSIVE NpcEntities(_, _)
NpcEntities(npc_data, i) ==
    IF i > Len(npc_data)
    THEN <<>>
    ELSE (IF NpcIncluded(npc_data[i].info) THEN <<npc_data[i].key>> ELSE <<>>)
         \o NpcEntities(npc_data, i + 1)

\* mutant: the participants are added whether or not in_combat is set
_extract_expected_entities_any_participants(gs) ==
    LET pc_data      == Get(gs, "player_character_data", EmptyDict)
        npc_data     == Get(gs, "npc_data", <<>>)
        combat_state == Get(gs, "combat_state", EmptyDict)
        with_pc      == IF HasName(pc_data) THEN <<pc_data["name"]>> ELSE <<>>
        with_npcs    == with_pc \o NpcEntities(npc_data, 1)
    IN  ExtendWithParticipants(with_npcs, Get(combat_state, "participants", <<>>), 1)

_extract_expected_entities(gs) ==
    LET pc_data      == Get(gs, "player_character_data", EmptyDict)
        npc_data     == Get(gs, "npc_data", <<>>)
        combat_state == Get(gs, "combat_state", EmptyDict)
        with_pc      == IF HasName(pc_data) THEN <<pc_data["name"]>> ELSE <<>>
        with_npcs    == with_pc \o NpcEntities(npc_data, 1)
    IN  IF Get(combat_state, "in_combat", FALSE)
        THEN ExtendWithParticipants(with_npcs, Get(combat_state, "participants", <<>>), 1)
        ELSE with_npcs

(***************************************************************************)
(* ValidationOnlyApproach.extract_entities_from_state                      *)
(***************************************************************************)
\* the keys of player_character_data whose value is not itself a dict
PcScalarKeys == {"name", "hidden", "conscious", "conditions"}

\* "Handle multiple PCs": the names of the dict values of pc_data
NestedPcNames(pc_data) ==
    {pc_data[k]["name"] :
        k \in {j \in DOMAIN pc_data \ PcScalarKeys : "name" \in DOMAIN pc_data[j]}}

VoaActiveNpc(npc_info) ==
    Get(npc_info, "present", FALSE) \/ Get(npc_info, "recently_active", FALSE)

VoaParticipantNames(participants) ==
    {participants[i].str : i \in {j \in 1..Len(participants) : IsStr(participants[j])}}
    \cup {participants[i].dict["name"] :
             i \in {j \in 1..Len(participants) :
                       ~IsStr(participants[j]) /\ "name" \in DOMAIN participants[j].dict}}

extract_entities_from_state(gs) ==
    LET pc_data      == Get(gs, "player_character_data", EmptyDict)
        npc_data     == Get(gs, "npc_data", <<>>)
        world_data   == Get(gs, "world_data", EmptyDict)
        combat_state == Get(gs, "combat_state", EmptyDict)
        pcs          == (IF "name" \in DOMAIN pc_data THEN {pc_data["name"]} ELSE {})
                        \cup NestedPcNames(pc_data)
        npcs         == {npc_data[i].key : i \in 1..Len(npc_data)}
        active_npcs  == {npc_data[i].key :
                            i \in {j \in 1..Len(npc_data) : VoaActiveNpc(npc_data[j].info)}}
        current_loc  == Get(world_data, "current_location", <<>>)
        locs         == IF current_loc # <<>> THEN {current_loc} ELSE {}
        fighters     == IF Get(combat_state, "in_combat", FALSE)
                        THEN VoaParticipantNames(Get(combat_state, "participants", <<>>))
                        ELSE {}
    IN  [player_characters |-> pcs,
         npcs              |-> npcs,
         locations         |-> locs,
         items             |-> {},
         active_entities   |-> pcs \cup active_npcs \cup locs \cup fighters]

(***************************************************************************)
(* CampaignAnalyzer._classify_desync_pattern                               *)
(***************************************************************************)
\* the truthy location values of the NPC records
NpcLocations(npc_data) ==
    {npc_data[i].info["location"] :
        i \in {j \in 1..Len(npc_data) :
                  /\ "location" \in DOMAIN npc_data[j].info
                  /\ npc_data[j].info["location"] # <<>>}}

\* the loop over the missing entities: the first entity that is unconscious
\* or hidden decides, and for one entity unconscious is tested first
RECURSIVE StatusEffect(_, _, _)
StatusEffect(npc_data, missing_entities, i) ==
    IF i > Len(missing_entities)
    THEN "none"
    ELSE LET npc_info == NpcGet(npc_data, missing_entities[i])
         IN  IF ~Get(npc_info, "conscious", TRUE)
             THEN "unconscious_omission"
             ELSE IF Get(npc_info, "hidden", FALSE)
                  THEN "hidden_character"
                  ELSE StatusEffect(npc_data, missing_entities, i + 1)

\* hasattr(validation_result, "metadata") and a non-empty "ambiguous" list
Ambiguous(vr) ==
    /\ "metadata" \in DOMAIN vr
    /\ Get(vr["metadata"], "ambiguous", <<>>) # <<>>

\* mutant: the split-party test comes before the combat test
_classify_desync_pattern_split_first(gs, vr, narrative_) ==
    LET npc_data == Get(gs, "npc_data", <<>>)
        status   == StatusEffect(npc_data, vr["entities_missing"], 1)
    IN  IF Cardinality(NpcLocations(npc_data)) > 1
        THEN "split_party_confusion"
        ELSE IF Get(Get(gs, "combat_state", EmptyDict), "in_combat", FALSE)
        THEN "combat_entity_missing"
        ELSE IF status # "none"
        THEN status
        ELSE IF Ambiguous(vr)
        THEN "presence_ambiguity"
        ELSE "general_entity_omission"

\* mutant: the ambiguity test comes before the loop over the missing entities
_classify_desync_pattern_ambiguity_first(gs, vr, narrative_) ==
    LET npc_data == Get(gs, "npc_data", <<>>)
        status   == StatusEffect(npc_data, vr["entities_missing"], 1)
    IN  IF Get(Get(gs, "combat_state", EmptyDict), "in_combat", FALSE)
        THEN "combat_entity_missing"
        ELSE IF Cardinality(NpcLocations(npc_data)) > 1
        THEN "split_party_confusion"
        ELSE IF Ambiguous(vr)
        THEN "presence_ambiguity"
        ELSE IF status # "none"
        THEN status
        ELSE "general_entity_omission"

\* mutant: any unconscious NPC of the game state makes the turn an
\* unconscious omission, missing or not
_classify_desync_pattern_any_unconscious(gs, vr, narrative_) ==
    LET npc_data == Get(gs, "npc_data", <<>>)
        status   == StatusEffect(npc_data, vr["entities_missing"], 1)
    IN  IF Get(Get(gs, "combat_state", EmptyDict), "in_combat", FALSE)
        THEN "combat_entity_missing"
        ELSE IF Cardinality(NpcLocations(npc_data)) > 1
        THEN "split_party_confusion"
        ELSE IF \E i \in 1..Len(npc_data) : ~Get(npc_data[i].info, "conscious", TRUE)
        THEN "unconscious_omission"
        ELSE IF status # "none"
        THEN status
        ELSE IF Ambiguous(vr)
        THEN "presence_ambiguity"
        ELSE "general_entity_omission"

_classify_desync_pattern(gs, vr, narrative_) ==
    LET npc_data == Get(gs, "npc_data", <<>>)
        status   == StatusEffect(npc_data, vr["entities_missing"], 1)
    IN  IF Get(Get(gs, "combat_state", EmptyDict), "in_combat", FALSE)
        THEN "combat_entity_missing"
        ELSE IF Cardinality(NpcLocations(npc_data)) > 1
        THEN "split_party_confusion"
        ELSE IF status # "none"
        THEN status
        ELSE IF Ambiguous(vr)
        THEN "presence_ambiguity"
        ELSE "general_entity_omission"

(***************************************************************************)
(* Inputs of the classifier.                                               *)
(***************************************************************************)
ClassifierNpcInfos ==
    {c @@ h @@ l : c \in Opt("conscious", {FALSE}),
                   h \in Opt("hidden", {TRUE}),
                   l \in Opt("location", {Crypt, Tower})}

ClassifierNpcDatas ==
    UNION {{[i \in 1..n |-> [key |-> NpcKeys[i], info |-> f[i]]] :
               f \in [1..n -> ClassifierNpcInfos]} : n \in 0..MaxNpcs}

ClassifierStates ==
    {("npc_data" :> npcs) @@ cs :
        npcs \in ClassifierNpcDatas,
        cs \in Opt("combat_state",
                   {[in_combat |-> FALSE],
                    [in_combat |-> TRUE, participants |-> <<Str(Zara), Str(Orc)>>]})}

\* the non-empty lists of missing entities: the first two NPC keys and a
\* name that has no record
MissingLists ==
    {<<a>> : a \in {Zara, Finn, Orc}}
    \cup {ms \in {<<a, b>> : a \in {Zara, Finn, Orc}, b \in {Zara, Finn, Orc}} :
             ms[1] # ms[2]}

ValidationResults ==
    {[entities_found |-> <<>>, entities_missing |-> ms] @@ md :
        ms \in MissingLists,
        md \in Opt("metadata",
                   {EmptyDict, [ambiguous |-> <<>>], [ambiguous |-> <<Orc>>]})}

TheCryptWasSilent ==
    <<"T", "h", "e", " ", "c", "r", "y", "p", "t", " ", "w", "a", "s", " ",
      "s", "i", "l", "e", "n", "t", ".">>

(***************************************************************************)
(* Ratios (desync_rate): n / d as a fraction in lowest terms, 0 as 0 / 1.  *)
(***************************************************************************)
RECURSIVE Gcd(_, _)
Gcd(a, b) == IF b = 0 THEN a ELSE Gcd(b, a % b)

Ratio(n, d) == IF n = 0 THEN <<0, 1>> ELSE <<n \div Gcd(n, d), d \div Gcd(n, d)>>

\* the orders in which a set can be iterated
Orderings(S) ==
    {f \in [1..Cardinality(S) -> S] : \A i, j \in 1..Cardinality(S) : i # j => f[i] # f[j]}

(***************************************************************************)
(* ValidationOnlyApproach.validate_narrative and test_campaign_scenario.   *)
(* order is the order in which the set active_entities is iterated.        *)
(***************************************************************************)
\* mutant: an entity that is found is also reported missing
validate_narrative_found_also_missing(narrative_, ents, order) ==
    LET Found(e)         == validate_entity(narrative_, e)
        found_entities   == SelectSeq(order, Found)
        missing_entities == order
    IN  [narrative_length  |-> Len(narrative_),
         entities_expected |-> Cardinality(ents.active_entities),
         entities_found    |-> Len(found_entities),
         entities_missing  |-> missing_entities,
         desync_detected   |-> Len(missing_entities) > 0,
         desync_rate       |-> IF ents.active_entities # {}
                               THEN Ratio(Len(missing_entities),
                                          Cardinality(ents.active_entities))
                               ELSE Ratio(0, 1),
         details |-> [found_entities        |-> found_entities,
                      all_player_characters |-> ents.player_characters,
                      all_npcs              |-> ents.npcs,
                      current_location      |-> ents.locations]]

\* mutant: a narrative shorter than 50 characters is not validated
validate_narrative_skips_short(narrative_, ents, order) ==
    LET Found(e)         == validate_entity(narrative_, e) \/ Len(narrative_) < 50
        NotFound(e)      == ~Found(e)
        found_entities   == SelectSeq(order, Found)
        missing_entities == SelectSeq(order, NotFound)
    IN  [narrative_length  |-> Len(narrative_),
         entities_expected |-> Cardinality(ents.active_entities),
         entities_found    |-> Len(found_entities),
         entities_missing  |-> missing_entities,
         desync_detected   |-> Len(missing_entities) > 0,
         desync_rate       |-> IF ents.active_entities # {}
                               THEN Ratio(Len(missing_entities),
                                          Cardinality(ents.active_entities))
                               ELSE Ratio(0, 1),
         details |-> [found_entities        |-> found_entities,
                      all_player_characters |-> ents.player_characters,
                      all_npcs              |-> ents.npcs,
                      current_location      |-> ents.locations]]

validate_narrative(narrative_, ents, order) ==
    LET Found(e)         == validate_entity(narrative_, e)
        NotFound(e)      == ~validate_entity(narrative_, e)
        found_entities   == SelectSeq(order, Found)
        missing_entities == SelectSeq(order, NotFound)
    IN  [narrative_length  |-> Len(narrative_),
         entities_expected |-> Cardinality(ents.active_entities),
         entities_found    |-> Len(found_entities),
         entities_missing  |-> missing_entities,
         desync_detected   |-> Len(missing_entities) > 0,
         desync_rate       |-> IF ents.active_entities # {}
                               THEN Ratio(Len(missing_entities),
                                          Cardinality(ents.active_entities))
                               ELSE Ratio(0, 1),
         details |-> [found_entities        |-> found_entities,
                      all_player_characters |-> ents.player_characters,
                      all_npcs              |-> ents.npcs,
                      current_location      |-> ents.locations]]

test_campaign_scenario(campaign_id, scenario_name, gs, narrative_, order) ==
    validate_narrative(narrative_, extract_entities_from_state(gs), order)
    @@ [campaign_id |-> campaign_id, scenario_name |-> scenario_name,
        approach |-> "validation_only"]

(***************************************************************************)
(* NarrativeSyncValidator.validate (prototype/validators, not among the    *)
(* sources): the NarrativeValidator and TextEntityMatcher of the           *)
(* specification, sections 4.2 and 4.3.                                    *)
(***************************************************************************)
ShortNarrativeLen == 50

LocationCheckLen == 100

TokenMinLen == 3

isMentioned(text_, name) ==
    /\ name # <<>>
    /\ text_ # <<>>
    /\ \/ Contains(Lower(name), Lower(text_))
       \/ /\ Len(Split(name)) > 1
          /\ \E k \in 1..Len(Split(name)) :
                 /\ Len(Split(name)[k]) > TokenMinLen
                 /\ Contains(Lower(Split(name)[k]), Lower(text_))

\* no word of the location that is longer than 3 characters is in a
\* narrative of more than 100 characters
LocationMismatch(narrative_, location) ==
    /\ Len(narrative_) > LocationCheckLen
    /\ ~\E k \in 1..Len(Split(location)) :
           /\ Len(Split(location)[k]) > TokenMinLen
           /\ Contains(Lower(Split(location)[k]), Lower(narrative_))

\* location is [value |-> the location] or EmptyDict for None
validate(narrative_text, expected, location) ==
    LET Found(e)    == isMentioned(narrative_text, e)
        NotFound(e) == ~isMentioned(narrative_text, e)
    IN  IF expected = <<>> \/ Len(narrative_text) < ShortNarrativeLen
        THEN [entities_found |-> expected, entities_missing |-> <<>>,
              metadata |-> [ambiguous |-> <<>>]]
        ELSE [entities_found   |-> SelectSeq(expected, Found),
              entities_missing |-> SelectSeq(expected, NotFound),
              metadata |->
                 [ambiguous |->
                     IF "value" \in DOMAIN location
                        /\ LocationMismatch(narrative_text, location["value"])
                     THEN <<location["value"]>>
                     ELSE <<>>]]

(***************************************************************************)
(* CampaignAnalyzer: __init__, _analyze_turn, analyze_campaign's report.   *)
(***************************************************************************)
ExcerptLen == 200

Ellipsis == <<".", ".", ".">>

\* CampaignAnalyzer.__init__: metrics and desync_patterns
FreshMetrics ==
    [total_turns |-> 0, desync_turns |-> 0, entities_tracked |-> {},
     pattern_counts |-> EmptyDict]

\* pattern_counts[pattern_type] += 1 on a defaultdict(int)
Increment(counts, k) ==
    [j \in DOMAIN counts \cup {k} |-> IF j = k THEN Get(counts, k, 0) + 1 ELSE counts[j]]

\* game_state.get("location") as the validator's location argument
LocationArg(gs) == IF "location" \in DOMAIN gs THEN [value |-> gs["location"]] ELSE EmptyDict

\* mutant: desync_turns counts the missing entities instead of the turns
_analyze_turn_counts_missing_entities(an, session_num, turn_data) ==
    LET turn_num   == Get(turn_data, "turn_number", 0)
        narrative_ == Get(turn_data, "narrative", <<>>)
        gs         == Get(turn_data, "game_state", EmptyDict)
        expected   == _extract_expected_entities(gs)
        counted    == [an.metrics EXCEPT
                          !.total_turns = @ + 1,
                          !.entities_tracked = @ \cup Range(expected)]
        vr         == validate(narrative_, expected, LocationArg(gs))
        ptype      == _classify_desync_pattern(gs, vr, narrative_)
    IN  IF expected = <<>>
        THEN [metrics |-> counted, desync_patterns |-> an.desync_patterns]
        ELSE IF vr["entities_missing"] = <<>>
        THEN [metrics |-> counted, desync_patterns |-> an.desync_patterns]
        ELSE [metrics |->
                 [counted EXCEPT
                     !.desync_turns = @ + Len(vr["entities_missing"]),
                     !.pattern_counts = Increment(@, ptype)],
              desync_patterns |->
                 Append(an.desync_patterns,
                        [session |-> session_num, turn |-> turn_num,
                         pattern_type |-> ptype, expected |-> expected,
                         found |-> vr["entities_found"],
                         missing |-> vr["entities_missing"],
                         narrative_excerpt |-> narrative_])]

\* mutant: a turn without expected entities is not counted
_analyze_turn_counts_after_extraction(an, session_num, turn_data) ==
    LET turn_num   == Get(turn_data, "turn_number", 0)
        narrative_ == Get(turn_data, "narrative", <<>>)
        gs         == Get(turn_data, "game_state", EmptyDict)
        expected   == _extract_expected_entities(gs)
        counted    == [an.metrics EXCEPT
                          !.total_turns = @ + 1,
                          !.entities_tracked = @ \cup Range(expected)]
        vr         == validate(narrative_, expected, LocationArg(gs))
        ptype      == _classify_desync_pattern(gs, vr, narrative_)
    IN  IF expected = <<>>
        THEN [metrics |-> an.metrics, desync_patterns |-> an.desync_patterns]
        ELSE IF vr["entities_missing"] = <<>>
        THEN [metrics |-> counted, desync_patterns |-> an.desync_patterns]
        ELSE [metrics |->
                 [counted EXCEPT
                     !.desync_turns = @ + 1,
                     !.pattern_counts = Increment(@, ptype)],
              desync_patterns |->
                 Append(an.desync_patterns,
                        [session |-> session_num, turn |-> turn_num,
                         pattern_type |-> ptype, expected |-> expected,
                         found |-> vr["entities_found"],
                         missing |-> vr["entities_missing"],
                         narrative_excerpt |-> narrative_])]

\* mutant: the pattern of a turn is put in front of the earlier ones
_analyze_turn_prepends_pattern(an, session_num, turn_data) ==
    LET turn_num   == Get(turn_data, "turn_number", 0)
        narrative_ == Get(turn_data, "narrative", <<>>)
        gs         == Get(turn_data, "game_state", EmptyDict)
        expected   == _extract_expected_entities(gs)
        counted    == [an.metrics EXCEPT
                          !.total_turns = @ + 1,
                          !.entities_tracked = @ \cup Range(expected)]
        vr         == validate(narrative_, expected, LocationArg(gs))
        ptype      == _classify_desync_pattern(gs, vr, narrative_)
    IN  IF expected = <<>>
        THEN [metrics |-> counted, desync_patterns |-> an.desync_patterns]
        ELSE IF vr["entities_missing"] = <<>>
        THEN [metrics |-> counted, desync_patterns |-> an.desync_patterns]
        ELSE [metrics |->
                 [counted EXCEPT
                     !.desync_turns = @ + 1,
                     !.pattern_counts = Increment(@, ptype)],
              desync_patterns |->
                 <<[session |-> session_num, turn |-> turn_num,
                    pattern_type |-> ptype, expected |-> expected,
                    found |-> vr["entities_found"],
                    missing |-> vr["entities_missing"],
                    narrative_excerpt |-> narrative_]>>
                 \o an.desync_patterns]

\* mutant: the entities of a turn are tracked only when the turn is a desync
_analyze_turn_tracks_desyncs_only(an, session_num, turn_data) ==
    LET turn_num   == Get(turn_data, "turn_number", 0)
        narrative_ == Get(turn_data, "narrative", <<>>)
        gs         == Get(turn_data, "game_state", EmptyDict)
        expected   == _extract_expected_entities(gs)
        counted    == [an.metrics EXCEPT !.total_turns = @ + 1]
        vr         == validate(narrative_, expected, LocationArg(gs))
        ptype      == _classify_desync_pattern(gs, vr, narrative_)
    IN  IF expected = <<>>
        THEN [metrics |-> counted, desync_patterns |-> an.desync_patterns]
        ELSE IF vr["entities_missing"] = <<>>
        THEN [metrics |-> counted, desync_patterns |-> an.desync_patterns]
        ELSE [metrics |->
                 [counted EXCEPT
                     !.entities_tracked = @ \cup Range(expected),
                     !.desync_turns = @ + 1,
                     !.pattern_counts = Increment(@, ptype)],
              desync_patterns |->
                 Append(an.desync_patterns,
                        [session |-> session_num, turn |-> turn_num,
                         pattern_type |-> ptype, expected |-> expected,
                         found |-> vr["entities_found"],
                         missing |-> vr["entities_missing"],
                         narrative_excerpt |-> narrative_])]

\* mutant: an entity tracked by an earlier turn is no longer expected
_analyze_turn_skips_tracked_entities(an, session_num, turn_data) ==
    LET turn_num   == Get(turn_data, "turn_number", 0)
        narrative_ == Get(turn_data, "narrative", <<>>)
        gs         == Get(turn_data, "game_state", EmptyDict)
        NotTracked(e) == e \notin an.metrics.entities_tracked
        expected   == SelectSeq(_extract_expected_entities(gs), NotTracked)
        counted    == [an.metrics EXCEPT
                          !.total_turns = @ + 1,
                          !.entities_tracked = @ \cup Range(expected)]
        vr         == validate(narrative_, expected, LocationArg(gs))
        ptype      == _classify_desync_pattern(gs, vr, narrative_)
    IN  IF expected = <<>>
        THEN [metrics |-> counted, desync_patterns |-> an.desync_patterns]
        ELSE IF vr["entities_missing"] = <<>>
        THEN [metrics |-> counted, desync_patterns |-> an.desync_patterns]
        ELSE [metrics |->
                 [counted EXCEPT
                     !.desync_turns = @ + 1,
                     !.pattern_counts = Increment(@, ptype)],
              desync_patterns |->
                 Append(an.desync_patterns,
                        [session |-> session_num, turn |-> turn_num,
                         pattern_type |-> ptype, expected |-> expected,
                         found |-> vr["entities_found"],
                         missing |-> vr["entities_missing"],
                         narrative_excerpt |-> narrative_])]

_analyze_turn(an, session_num, turn_data) ==
    LET turn_num   == Get(turn_data, "turn_number", 0)
        narrative_ == Get(turn_data, "narrative", <<>>)
        gs         == Get(turn_data, "game_state", EmptyDict)
        expected   == _extract_expected_entities(gs)
        counted    == [an.metrics EXCEPT
                          !.total_turns = @ + 1,
                          !.entities_tracked = @ \cup Range(expected)]
        vr         == validate(narrative_, expected, LocationArg(gs))
        ptype      == _classify_desync_pattern(gs, vr, narrative_)
    IN  IF expected = <<>>
        THEN [metrics |-> counted, desync_patterns |-> an.desync_patterns]
        ELSE IF vr["entities_missing"] = <<>>
        THEN [metrics |-> counted, desync_patterns |-> an.desync_patterns]
        ELSE [metrics |->
                 [counted EXCEPT
                     !.desync_turns = @ + 1,
                     !.pattern_counts = Increment(@, ptype)],
              desync_patterns |->
                 Append(an.desync_patterns,
                        [session |-> session_num, turn |-> turn_num,
                         pattern_type |-> ptype, expected |-> expected,
                         found |-> vr["entities_found"],
                         missing |-> vr["entities_missing"],
                         narrative_excerpt |-> narrative_])]

\* DesyncPattern.to_dict (the timestamp is left out)
to_dict(pattern) ==
    [session |-> pattern.session, turn |-> pattern.turn,
     pattern_type |-> pattern.pattern_type,
     expected_entities |-> pattern.expected,
     found_entities |-> pattern.found,
     missing_entities |-> pattern.missing,
     narrative_excerpt |->
        IF Len(pattern.narrative_excerpt) > ExcerptLen
        THEN SubSeq(pattern.narrative_excerpt, 1, ExcerptLen) \o Ellipsis
        ELSE pattern.narrative_excerpt]

\* mutant: the rate of a campaign without turns is 1
DesyncRate_one_without_turns(metrics_) ==
    IF metrics_.total_turns > 0
    THEN Ratio(metrics_.desync_turns, metrics_.total_turns)
    ELSE Ratio(1, 1)

\* metrics["desync_rate"] at the end of analyze_campaign
DesyncRate(metrics_) ==
    IF metrics_.total_turns > 0
    THEN Ratio(metrics_.desync_turns, metrics_.total_turns)
    ELSE Ratio(0, 1)

\* the report analyze_campaign returns (timestamp and processing time are
\* left out); entity_list, the sorted list of a set, is given as the set

\* a reference to a mutable object of the analyzer, held in place of a copy
Ref(object) == [ref |-> object]

\* mutant: the report holds self.metrics["pattern_counts"] itself, not the
\* copy dict(...) makes
AnalysisReport_shares_pattern_counts(campaign, metrics_, patterns) ==
    [campaign_id |-> Get(campaign, "campaign_id", "unknown"),
     campaign_name |-> Get(campaign, "campaign_name", "Unknown Campaign"),
     summary |->
        [total_sessions  |-> Len(Get(campaign, "sessions", <<>>)),
         total_turns     |-> metrics_.total_turns,
         desync_turns    |-> metrics_.desync_turns,
         desync_rate     |-> DesyncRate(metrics_),
         unique_entities |-> Cardinality(metrics_.entities_tracked)],
     pattern_breakdown |-> Ref("pattern_counts"),
     desync_patterns |-> [i \in 1..Len(patterns) |-> to_dict(patterns[i])],
     entity_list |-> metrics_.entities_tracked]

AnalysisReport(campaign, metrics_, patterns) ==
    [campaign_id |-> Get(campaign, "campaign_id", "unknown"),
     campaign_name |-> Get(campaign, "campaign_name", "Unknown Campaign"),
     summary |->
        [total_sessions  |-> Len(Get(campaign, "sessions", <<>>)),
         total_turns     |-> metrics_.total_turns,
         desync_turns    |-> metrics_.desync_turns,
         desync_rate     |-> DesyncRate(metrics_),
         unique_entities |-> Cardinality(metrics_.entities_tracked)],
     pattern_breakdown |-> metrics_.pattern_counts,
     desync_patterns |-> [i \in 1..Len(patterns) |-> to_dict(patterns[i])],
     entity_list |-> metrics_.entities_tracked]

(***************************************************************************)
(* analyze_campaign as a function of the campaign: the loops of            *)
(* analyze_campaign and _analyze_session on a fresh CampaignAnalyzer.      *)
(***************************************************************************)
FreshAnalyzer == [metrics |-> FreshMetrics, desync_patterns |-> <<>>]

RECURSIVE AnalyzeTurns(_, _, _)
AnalyzeTurns(an, session_num, turns) ==
    IF turns = <<>>
    THEN an
    ELSE AnalyzeTurns(_analyze_turn(an, session_num, Head(turns)), session_num, Tail(turns))

_analyze_session(an, session_data) ==
    AnalyzeTurns(an, Get(session_data, "session_number", 0),
                 Get(session_data, "turns", <<>>))

RECURSIVE AnalyzeSessions(_, _)
AnalyzeSessions(an, sessions) ==
    IF sessions = <<>>
    THEN an
    ELSE AnalyzeSessions(_analyze_session(an, Head(sessions)), Tail(sessions))

\* the report of analyze_campaign(campaign) on a fresh analyzer
FreshReport(campaign) ==
    LET an == AnalyzeSessions(FreshAnalyzer, Get(campaign, "sessions", <<>>))
    IN  AnalysisReport(campaign, an.metrics, an.desync_patterns)

(***************************************************************************)
(* create_mock_campaign_data and the campaigns drawn for the analyzer.     *)
(***************************************************************************)
Sariel ==
    <<"S", "a", "r", "i", "e", "l">>

Cassian ==
    <<"C", "a", "s", "s", "i", "a", "n">>

Valerius ==
    <<"V", "a", "l", "e", "r", "i", "u", "s">>

Guard ==
    <<"G", "u", "a", "r", "d">>

ThroneRoom ==
    <<"T", "h", "r", "o", "n", "e", " ", "R", "o", "o", "m">>

MockNarrative1 ==
    <<"S", "a", "r", "i", "e", "l", " ", "s", "t", "o", "o", "d", " ", "b", "e", "f", "o",
      "r", "e", " ", "t", "h", "e", " ", "t", "h", "r", "o", "n", "e", " ", "a", "s", " ",
      "V", "a", "l", "e", "r", "i", "u", "s", " ", "a", "p", "p", "r", "o", "a", "c", "h",
      "e", "d", ".">>

MockNarrative2 ==
    <<"T", "h", "e", " ", "g", "u", "a", "r", "d", " ", "a", "t", "t", "a", "c", "k", "e",
      "d", "!", " ", "S", "a", "r", "i", "e", "l", " ", "d", "o", "d", "g", "e", "d", " ",
      "w", "h", "i", "l", "e", " ", "e", "n", "g", "a", "g", "i", "n", "g", " ", "i", "n",
      " ", "c", "o", "m", "b", "a", "t", ".">>

ShortNarrative ==
    <<"S", "a", "r", "i", "e", "l", " ", "s", "t", "o", "o", "d", " ", "b", "e", "f", "o",
      "r", "e", " ", "t", "h", "e", " ", "t", "h", "r", "o", "n", "e", ".">>

Throne == <<"t", "h", "r", "o", "n", "e">>

Entrance == <<"e", "n", "t", "r", "a", "n", "c", "e">>

\* a narrative of more than 200 characters
LongNarrative == MockNarrative2 \o MockNarrative1 \o MockNarrative2 \o MockNarrative1

MockTurn1 ==
    [turn_number |-> 1,
     game_state |->
        [player_character_data |-> [name |-> Sariel],
         npc_data |-> <<[key |-> Cassian, info |-> [present |-> TRUE]],
                        [key |-> Valerius, info |-> [present |-> TRUE]]>>,
         location |-> ThroneRoom],
     narrative |-> MockNarrative1]

MockTurn2 ==
    [turn_number |-> 2,
     game_state |->
        [player_character_data |-> [name |-> Sariel],
         npc_data |->
            <<[key |-> Cassian, info |-> [present |-> TRUE, location |-> Throne]],
              [key |-> Valerius, info |-> [present |-> TRUE, location |-> Entrance]],
              [key |-> Guard, info |-> [present |-> TRUE]]>>,
         combat_state |->
            [in_combat |-> TRUE,
             participants |-> <<Str(Sariel), Str(Cassian), Str(Guard)>>]],
     narrative |-> MockNarrative2]

\* a turn whose narrative names everybody, and one without a game state
QuietTurn ==
    [turn_number |-> 3,
     game_state |-> [player_character_data |-> [name |-> Sariel],
                     npc_data |-> <<[key |-> Valerius, info |-> EmptyDict]>>],
     narrative |-> MockNarrative1]

BareTurn == [narrative |-> LongNarrative]

\* Zara, hidden, is not in a long narrative that does not name the place
HiddenTurn ==
    [turn_number |-> 4,
     game_state |-> [player_character_data |-> [name |-> Sariel],
                     npc_data |-> <<[key |-> Zara, info |-> [hidden |-> TRUE]]>>,
                     location |-> Crypt],
     narrative |-> LongNarrative]

\* Sariel and a present Cassian; the narrative, shorter than 50 characters,
\* names Sariel alone
ScenarioAState ==
    [player_character_data |-> [name |-> Sariel],
     npc_data |-> <<[key |-> Cassian, info |-> [present |-> TRUE]]>>]

ShortTurn == [turn_number |-> 1, game_state |-> ScenarioAState, narrative |-> ShortNarrative]

Turns == {MockTurn1, MockTurn2, QuietTurn, BareTurn, HiddenTurn, ShortTurn}

TurnLists == UNION {[1..k -> Turns] : k \in 0..MaxTurns}

RECURSIVE Sum(_)
Sum(ns) == IF ns = <<>> THEN 0 ELSE Head(ns) + Sum(Tail(ns))

\* the turns of a list cut into sessions of the given lengths
RECURSIVE Cut(_, _)
Cut(turns, lens) ==
    IF lens = <<>>
    THEN <<>>
    ELSE <<SubSeq(turns, 1, Head(lens))>>
         \o Cut(SubSeq(turns, Head(lens) + 1, Len(turns)), Tail(lens))

\* the lengths of at most MaxSessions sessions: only the first session of a
\* campaign that has turns may be empty
SessionLengths ==
    {l \in UNION {[1..n -> 0..MaxTurns] : n \in 0..MaxSessions} :
        \/ \A i \in 1..Len(l) : l[i] = 0
        \/ \A i \in 2..Len(l) : l[i] > 0}

\* the lists of at most MaxSessions sessions that hold at most MaxTurns turns
SessionLists ==
    UNION {{Cut(ts, lens) : lens \in {l \in SessionLengths : Sum(l) = Len(ts)}} :
              ts \in TurnLists}

Campaigns ==
    {[campaign_id |-> "sariel_v2_001", campaign_name |-> "Sariel v2: The Awakening",
      sessions |-> [i \in 1..Len(ss) |-> [session_number |-> i, turns |-> ss[i]]]] :
        ss \in SessionLists}

\* turns whose game state is None, holds an NPC record that is a string, or
\* holds a combat_state that is a string
NullStateTurn == [turn_number |-> 5, game_state |-> None, narrative |-> MockNarrative1]

BadNpcTurn ==
    [turn_number |-> 6,
     game_state |-> [player_character_data |-> [name |-> Sariel],
                     npc_data |-> <<[key |-> Zara, info |-> Str(Zara)]>>],
     narrative |-> MockNarrative1]

BadCombatTurn ==
    [turn_number |-> 7,
     game_state |-> [player_character_data |-> [name |-> Sariel],
                     combat_state |-> Str(Zara)],
     narrative |-> MockNarrative1]

MalformedTurns == {NullStateTurn, BadNpcTurn, BadCombatTurn}

\* campaigns of one session that holds a malformed turn and a turn of the
\* mock campaign, in either order
MalformedCampaigns ==
    {[campaign_id |-> "sariel_v2_001", campaign_name |-> "Sariel v2: The Awakening",
      sessions |-> <<[session_number |-> 1, turns |-> ts]>>] :
        ts \in UNION {{<<m, MockTurn1>>, <<MockTurn1, m>>} : m \in MalformedTurns}}

(***************************************************************************)
(* Inputs of test_campaign_scenario.                                       *)
(***************************************************************************)
VoaStates ==
    {MockTurn1.game_state, HiddenTurn.game_state, ScenarioAState, EmptyDict}
    \cup {[player_character_data |-> [name |-> SirGarrett],
           npc_data |-> <<[key |-> Cassian, info |-> npc]>>,
           world_data |-> [current_location |-> OldCrypt]] :
             npc \in {[present |-> TRUE], [present |-> FALSE], EmptyDict}}

Narratives ==
    {<<>>, ShortNarrative, MockNarrative1, MockNarrative2, LongNarrative,
     YesSirHeSaid, CassianApproached}

(***************************************************************************)
(* campaign_selector_0.4.py: analyze_narrative_for_desync and the loop of  *)
(* analyze_campaign.  A dict whose values may be non-dicts is a sequence   *)
(* of [key, info] with info tagged Dict(d) or Str(s); a story entry is     *)
(* tagged the same way.                                                    *)
(***************************************************************************)
MaxStory == 2

MinNarrativeLen == 50

LocationNarrativeLen == 100

LocationWordLen == 3

PreviewLen == 200

DefaultLimit == 50

TurnsPerSession == 20

\* npc_data.get("location") == world_data.get("current_location"); None on
\* both sides compares equal
SameLocation(npc, world) ==
    IF "location" \in DOMAIN npc
    THEN "current_location" \in DOMAIN world /\ npc["location"] = world["current_location"]
    ELSE "current_location" \notin DOMAIN world

\* the set expected_entities of analyze_narrative_for_desync
SelectorExpected(gs) ==
    LET pcs   == Get(gs, "player_character_data", <<>>)
        npcs  == Get(gs, "npc_data", <<>>)
        world == Get(gs, "world_data", EmptyDict)
    IN  {pcs[i].key : i \in {j \in 1..Len(pcs) : ~IsStr(pcs[j].info)}}
        \cup {Get(npcs[i].info.dict, "name", npcs[i].key) :
                 i \in {j \in 1..Len(npcs) :
                           /\ ~IsStr(npcs[j].info)
                           /\ SameLocation(npcs[j].info.dict, world)}}

\* mutant: the location words of any length are looked for
analyze_narrative_for_desync_any_word(narrative_, gs, order) ==
    LET narrative_lower  == Lower(narrative_)
        Absent(e)        == ~Contains(Lower(e), narrative_lower)
        missing          == SelectSeq(order, Absent)
        combat           == Get(gs, "combat_state", EmptyDict)
        participants     == IF Get(combat, "in_combat", FALSE)
                            THEN Get(combat, "participants", <<>>)
                            ELSE <<>>
        Unmentioned(p)   == /\ ~IsStr(p)
                            /\ Get(p.dict, "name", <<>>) # <<>>
                            /\ Absent(Get(p.dict, "name", <<>>))
        unmentioned      == SelectSeq(participants, Unmentioned)
        current_location == Get(Get(gs, "world_data", EmptyDict), "current_location", <<>>)
        location_words   == Split(Lower(current_location))
        location_mentioned ==
            \E k \in 1..Len(location_words) :
                Contains(location_words[k], narrative_lower)
    IN  [i \in 1..Len(missing) |->
            [type |-> "missing_entity", entity |-> missing[i],
             expected |-> TRUE, found |-> FALSE]]
        \o [i \in 1..Len(unmentioned) |->
               [type |-> "missing_combat_participant",
                entity |-> unmentioned[i].dict["name"], combat_active |-> TRUE]]
        \o (IF /\ current_location # <<>>
               /\ ~location_mentioned
               /\ Len(narrative_) > LocationNarrativeLen
            THEN <<[type |-> "location_mismatch",
                    expected_location |-> current_location,
                    narrative_length |-> Len(narrative_)]>>
            ELSE <<>>)

\* order is the order in which the set expected_entities is iterated
analyze_narrative_for_desync(narrative_, gs, order) ==
    LET narrative_lower  == Lower(narrative_)
        Absent(e)        == ~Contains(Lower(e), narrative_lower)
        missing          == SelectSeq(order, Absent)
        combat           == Get(gs, "combat_state", EmptyDict)
        participants     == IF Get(combat, "in_combat", FALSE)
                            THEN Get(combat, "participants", <<>>)
                            ELSE <<>>
        Unmentioned(p)   == /\ ~IsStr(p)
                            /\ Get(p.dict, "name", <<>>) # <<>>
                            /\ Absent(Get(p.dict, "name", <<>>))
        unmentioned      == SelectSeq(participants, Unmentioned)
        current_location == Get(Get(gs, "world_data", EmptyDict), "current_location", <<>>)
        location_words   == Split(Lower(current_location))
        location_mentioned ==
            \E k \in 1..Len(location_words) :
                /\ Len(location_words[k]) > LocationWordLen
                /\ Contains(location_words[k], narrative_lower)
    IN  [i \in 1..Len(missing) |->
            [type |-> "missing_entity", entity |-> missing[i],
             expected |-> TRUE, found |-> FALSE]]
        \o [i \in 1..Len(unmentioned) |->
               [type |-> "missing_combat_participant",
                entity |-> unmentioned[i].dict["name"], combat_active |-> TRUE]]
        \o (IF /\ current_location # <<>>
               /\ ~location_mentioned
               /\ Len(narrative_) > LocationNarrativeLen
            THEN <<[type |-> "location_mismatch",
                    expected_location |-> current_location,
                    narrative_length |-> Len(narrative_)]>>
            ELSE <<>>)

\* the dict analysis at the start of analyze_campaign (the fields copied
\* from the campaign's metadata are left out)
FreshAnalysis ==
    [total_sessions |-> 0, total_turns |-> 0, desync_incidents |-> <<>>,
     desync_rate |-> <<0, 1>>, common_issues |-> EmptyDict]

RECURSIVE CountIssues(_, _)
CountIssues(counts, issues) ==
    IF issues = <<>>
    THEN counts
    ELSE CountIssues(Increment(counts, Head(issues).type), Tail(issues))

\* s[:n]
Slice(s, n) == IF Len(s) > n THEN SubSeq(s, 1, n) ELSE s

Preview(narrative_, n) ==
    IF Len(narrative_) > n THEN Slice(narrative_, n) \o Ellipsis ELSE narrative_

\* mutant: the loop of analyze_campaign without the test of the length
AnalyzeEntry_no_length_skip(an, i, entry, gs, order) ==
    IF IsStr(entry) \/ Get(entry.dict, "actor", "none") # "ai"
    THEN an
    ELSE LET counted    == [an EXCEPT !.total_turns = @ + 1]
             narrative_ == Get(entry.dict, "text", <<>>)
             issues     == analyze_narrative_for_desync(narrative_, gs, order)
         IN  IF narrative_ = <<>>
             THEN counted
             ELSE IF issues = <<>>
             THEN counted
             ELSE [counted EXCEPT
                      !.desync_incidents =
                          Append(@, [turn |-> i, issues |-> issues,
                                     narrative_preview |-> Preview(narrative_, PreviewLen)]),
                      !.common_issues = CountIssues(@, issues)]

\* mutant: an incident records the count of AI turns, not enumerate's index
AnalyzeEntry_turn_is_count(an, i, entry, gs, order) ==
    IF IsStr(entry) \/ Get(entry.dict, "actor", "none") # "ai"
    THEN an
    ELSE LET counted    == [an EXCEPT !.total_turns = @ + 1]
             narrative_ == Get(entry.dict, "text", <<>>)
             issues     == analyze_narrative_for_desync(narrative_, gs, order)
         IN  IF narrative_ = <<>> \/ Len(narrative_) < MinNarrativeLen
             THEN counted
             ELSE IF issues = <<>>
             THEN counted
             ELSE [counted EXCEPT
                      !.desync_incidents =
                          Append(@, [turn |-> an.total_turns, issues |-> issues,
                                     narrative_preview |-> Preview(narrative_, PreviewLen)]),
                      !.common_issues = CountIssues(@, issues)]

\* one pass of the loop of analyze_campaign, past the test of the limit;
\* i is the index enumerate gives the entry
AnalyzeEntry(an, i, entry, gs, order) ==
    IF IsStr(entry) \/ Get(entry.dict, "actor", "none") # "ai"
    THEN an
    ELSE LET counted    == [an EXCEPT !.total_turns = @ + 1]
             narrative_ == Get(entry.dict, "text", <<>>)
             issues     == analyze_narrative_for_desync(narrative_, gs, order)
         IN  IF narrative_ = <<>> \/ Len(narrative_) < MinNarrativeLen
             THEN counted
             ELSE IF issues = <<>>
             THEN counted
             ELSE [counted EXCEPT
                      !.desync_incidents =
                          Append(@, [turn |-> i, issues |-> issues,
                                     narrative_preview |-> Preview(narrative_, PreviewLen)]),
                      !.common_issues = CountIssues(@, issues)]

\* the end of analyze_campaign: the rate and the estimate of the sessions
FinishAnalysis(an) ==
    [an EXCEPT
        !.desync_rate = IF an.total_turns > 0
                        THEN Ratio(Len(an.desync_incidents), an.total_turns)
                        ELSE @,
        !.total_sessions = an.total_turns \div TurnsPerSession]

(***************************************************************************)
(* campaign_selector_real.py: analyze_campaign_stories.                    *)
(***************************************************************************)
StoryWindow == 50

StoryPreviewLen == 150

\* story[-50:]
LastEntries(story) ==
    IF Len(story) > StoryWindow
    THEN SubSeq(story, Len(story) - StoryWindow + 1, Len(story))
    ELSE story

\* the set expected_entities of analyze_campaign_stories, for a
\* player_character_data that is a dict
StoriesExpected(gs) ==
    LET pc_data      == Get(gs, "player_character_data", <<>>)
        combat_state == Get(gs, "combat_state", EmptyDict)
        participants == IF Get(combat_state, "in_combat", FALSE)
                        THEN Get(combat_state, "participants", <<>>)
                        ELSE <<>>
    IN  {pc_data[i].key : i \in 1..Len(pc_data)}
        \cup {participants[i].dict["name"] :
                 i \in {j \in 1..Len(participants) :
                           /\ ~IsStr(participants[j])
                           /\ Get(participants[j].dict, "name", <<>>) # <<>>}}

FreshStoryAnalysis == [total_turns |-> 0, desync_incidents |-> <<>>]

\* one pass of the loop of analyze_campaign_stories
AnalyzeStoryEntry(an, i, entry, order) ==
    IF IsStr(entry) \/ Get(entry.dict, "actor", "none") # "ai"
    THEN an
    ELSE LET counted    == [an EXCEPT !.total_turns = @ + 1]
             narrative_ == Get(entry.dict, "text", <<>>)
             Absent(e)  == ~Contains(Lower(e), Lower(narrative_))
             missing    == SelectSeq(order, Absent)
         IN  IF Len(narrative_) < MinNarrativeLen
             THEN counted
             ELSE IF missing = <<>>
             THEN counted
             ELSE [counted EXCEPT
                      !.desync_incidents =
                          Append(@, [turn |-> i, missing_entities |-> missing,
                                     narrative_preview |->
                                        Slice(narrative_, StoryPreviewLen) \o Ellipsis])]

\* the dict analyze_campaign_stories returns
StoryAnalysis(an) ==
    [total_turns |-> an.total_turns,
     desync_incidents |-> an.desync_incidents,
     desync_rate |-> IF an.total_turns > 0
                     THEN Ratio(Len(an.desync_incidents), an.total_turns)
                     ELSE <<0, 1>>]

(***************************************************************************)
(* Stories and game states drawn for the selectors.                        *)
(***************************************************************************)
Npc001 == <<"n", "p", "c", "_", "0", "0", "1">>

TheInn == <<"T", "h", "e", " ", "I", "n", "n">>

StoryEntries ==
    {Str(MockNarrative1),
     Dict([actor |-> "user", text |-> MockNarrative1]),
     Dict([actor |-> "ai"]),
     Dict([actor |-> "ai", text |-> ShortNarrative]),
     Dict([actor |-> "ai", text |-> MockNarrative1]),
     Dict([actor |-> "ai", text |-> LongNarrative])}

Stories == UNION {[1..k -> StoryEntries] : k \in 0..MaxStory}

SelectorStates ==
    {EmptyDict,
     [player_character_data |-> <<[key |-> Sariel, info |-> Dict(EmptyDict)]>>,
      npc_data |-> <<[key |-> Npc001,
                      info |-> Dict([name |-> Cassian, location |-> ThroneRoom])]>>,
      world_data |-> [current_location |-> ThroneRoom]],
     [player_character_data |-> <<[key |-> Sariel, info |-> Dict(EmptyDict)],
                                  [key |-> Valerius, info |-> Str(Valerius)]>>,
      world_data |-> [current_location |-> OldCrypt]],
     [player_character_data |-> <<[key |-> Sariel, info |-> Dict(EmptyDict)]>>,
      world_data |-> [current_location |-> TheInn]],
     [player_character_data |-> <<[key |-> Zara, info |-> Dict(EmptyDict)]>>,
      npc_data |-> <<[key |-> Cassian, info |-> Dict(EmptyDict)]>>,
      world_data |-> EmptyDict],
     [player_character_data |-> <<[key |-> Sariel, info |-> Dict(EmptyDict)]>>,
      combat_state |->
         [in_combat |-> TRUE,
          participants |-> <<Dict([name |-> Cassian]), Str(Guard),
                             Dict([name |-> Guard])>>]]}

\* the documents fetched for analyze_campaign
CampaignDocs ==
    {[exists |-> FALSE, data |-> EmptyDict]}
    \cup {[exists |-> TRUE, data |-> d] :
             d \in {[story |-> s, game_state |-> gs] : s \in Stories, gs \in SelectorStates}
                   \cup {[game_state |-> gs] : gs \in SelectorStates}}

Limits == {0, 1, DefaultLimit}

\* the campaign_data handed to analyze_campaign_stories
StoryCampaigns ==
    {[story |-> s, game_state |-> gs] :
        s \in Stories,
        gs \in SelectorStates}
    \cup {EmptyDict}

(***************************************************************************)
(* campaign_selector_0.4.py: select_campaigns_for_testing, and             *)
(* campaign_selector_real.py: get_real_campaigns and main.  A desync rate  *)
(* is the fraction <<n, d>> in lowest terms.                               *)
(***************************************************************************)
MinStoryEntries == 10

MinStoryEntriesReal == 20

AnalyzedCap == 10

OtherLimit == 30

MinTurns == 5

MinRate == <<1, 20>>

TopCampaigns == 5

TopRealCampaigns == 3

RealWindow == 20

ExampleIncidents == 3

TestPatterns ==
    <<<<"m", "y", " ", "e", "p", "i", "c", " ", "a", "d", "v", "e", "n", "t", "u", "r",
        "e">>,
      <<"t", "e", "s", "t", " ", "c", "a", "m", "p", "a", "i", "g", "n">>,
      <<"d", "e", "m", "o", " ", "c", "a", "m", "p", "a", "i", "g", "n">>,
      <<"t", "u", "t", "o", "r", "i", "a", "l">>,
      <<"t", "e", "s", "t", "-">>>>

\* is_test_campaign of campaign_selector_0.4.py
is_test_campaign(campaign_name) ==
    \E i \in 1..Len(TestPatterns) : Contains(TestPatterns[i], Lower(campaign_name))

\* is_test_campaign of campaign_selector_real.py: no pattern "test-", and a
\* campaign without a name is a test campaign
is_test_campaign_real(campaign_name) ==
    \/ campaign_name = <<>>
    \/ \E i \in 1..Len(TestPatterns) - 1 :
           Contains(TestPatterns[i], Lower(campaign_name))

\* campaign_data.get("name", "") or campaign_data.get("title", "")
NameOrTitle(campaign_data_) ==
    IF Get(campaign_data_, "name", <<>>) # <<>>
    THEN campaign_data_["name"]
    ELSE Get(campaign_data_, "title", <<>>)

sariel == <<"s", "a", "r", "i", "e", "l">>

v2 == <<"v", "2">>

awakening == <<"a", "w", "a", "k", "e", "n", "i", "n", "g">>

Unknown == <<"U", "n", "k", "n", "o", "w", "n">>

\* "sariel" in name.lower() and "v2" in name.lower()
IsSarielV2(name) == Contains(sariel, Lower(name)) /\ Contains(v2, Lower(name))

\* the test of main: "v2" or "awakening"
IsSarielReal(name) ==
    /\ Contains(sariel, Lower(name))
    /\ Contains(v2, Lower(name)) \/ Contains(awakening, Lower(name))

\* a > b, for fractions
RateGreater(a, b) == a[1] * b[2] > b[1] * a[2]

\* the loop of analyze_campaign from entry i on
RECURSIVE AnalyzeFrom(_, _, _, _, _, _)
AnalyzeFrom(an, entries, i, gs, lim, order) ==
    IF i >= Len(entries) \/ an.total_turns >= lim
    THEN an
    ELSE AnalyzeFrom(AnalyzeEntry(an, i, entries[i + 1], gs, order),
                     entries, i + 1, gs, lim, order)

\* analyze_campaign(campaign_id, campaign_data, user_id, limit): the document
\* fetched for (user_id, campaign_id) is the campaign get_all_campaigns read
analyze_campaign(campaign_id, campaign_data_, lim, order) ==
    [campaign_id |-> campaign_id,
     campaign_name |-> Get(campaign_data_, "name", Unknown)]
    @@ FinishAnalysis(AnalyzeFrom(FreshAnalysis, Get(campaign_data_, "story", <<>>), 0,
                                  Get(campaign_data_, "game_state", EmptyDict), lim, order))

\* the loop of analyze_campaign_stories from entry i on
RECURSIVE StoriesFrom(_, _, _, _)
StoriesFrom(an, entries, i, order) ==
    IF i >= Len(entries)
    THEN an
    ELSE StoriesFrom(AnalyzeStoryEntry(an, i, entries[i + 1], order), entries, i + 1, order)

analyze_campaign_stories(campaign_data_, order) ==
    StoryAnalysis(StoriesFrom(FreshStoryAnalysis,
                              LastEntries(Get(campaign_data_, "story", <<>>)), 0, order))

\* mutant: the list is sorted by rising rate
RECURSIVE InsertByRate_ascending(_, _)
InsertByRate_ascending(sorted, x) ==
    IF sorted = <<>>
    THEN <<x>>
    ELSE IF RateGreater(Head(sorted).desync_rate, x.desync_rate)
         THEN <<x>> \o sorted
         ELSE <<Head(sorted)>> \o InsertByRate_ascending(Tail(sorted), x)

\* list.sort(key=lambda x: x["desync_rate"], reverse=True): stable, so
\* campaigns of equal rate keep their order
RECURSIVE InsertByRate(_, _)
InsertByRate(sorted, x) ==
    IF sorted = <<>>
    THEN <<x>>
    ELSE IF RateGreater(x.desync_rate, Head(sorted).desync_rate)
         THEN <<x>> \o sorted
         ELSE <<Head(sorted)>> \o InsertByRate(Tail(sorted), x)

RECURSIVE SortFrom(_, _)
SortFrom(sorted, rest) ==
    IF rest = <<>> THEN sorted ELSE SortFrom(InsertByRate(sorted, Head(rest)), Tail(rest))

SortByRate(list) == SortFrom(<<>>, list)

\* the first filter of select_campaigns_for_testing
IsRealCampaign(campaign_data_) ==
    /\ ~is_test_campaign(NameOrTitle(campaign_data_))
    /\ Len(Get(campaign_data_, "story", <<>>)) >= MinStoryEntries

\* the filter of get_real_campaigns
IsRealCampaignReal(campaign_data_) ==
    /\ ~is_test_campaign_real(NameOrTitle(campaign_data_))
    /\ Len(Get(campaign_data_, "story", <<>>)) >= MinStoryEntriesReal

\* the entry get_real_campaigns appends for a campaign
FoundCampaign(campaign_data_) ==
    [campaign_id |-> campaign_data_.campaign_id,
     user_id |-> campaign_data_.user_id,
     name |-> NameOrTitle(campaign_data_),
     story_length |-> Len(campaign_data_.story),
     data |-> campaign_data_ @@ [story_length |-> Len(campaign_data_.story)]]

RECURSIVE MapFound(_)
MapFound(list) ==
    IF list = <<>> THEN <<>> ELSE <<FoundCampaign(Head(list))>> \o MapFound(Tail(list))

\* the index of the first campaign named Sariel v2, 0 if there is none
FirstSarielV2(list) ==
    IF \E i \in 1..Len(list) : IsSarielV2(NameOrTitle(list[i]))
    THEN CHOOSE i \in 1..Len(list) :
             /\ IsSarielV2(NameOrTitle(list[i]))
             /\ \A j \in 1..(i - 1) : ~IsSarielV2(NameOrTitle(list[j]))
    ELSE 0

\* only include if it has meaningful data
Meaningful(an) == an.total_turns >= MinTurns /\ RateGreater(an.desync_rate, MinRate)

\* the test of main
MeaningfulReal(an) == RateGreater(an.desync_rate, MinRate) /\ an.total_turns > MinTurns

\* the entry main appends for a campaign
RealEntry(campaign, an) ==
    [campaign_id |-> campaign.campaign_id,
     user_id |-> campaign.user_id,
     name |-> campaign.name,
     desync_rate |-> an.desync_rate,
     total_turns |-> an.total_turns,
     incident_count |-> Len(an.desync_incidents),
     example_incidents |-> Slice(an.desync_incidents, ExampleIncidents)]

(***************************************************************************)
(* Campaigns drawn for the selections.  Every story entry is an AI entry   *)
(* whose narrative does not name the player character Zara, an AI entry    *)
(* without text, or a user entry.                                          *)
(***************************************************************************)
MaxCampaigns == 6

Repeat(x, n) == [i \in 1..n |-> x]

StoryOf(desyncs, quiet, users) ==
    Repeat(Dict([actor |-> "ai", text |-> MockNarrative1]), desyncs)
    \o Repeat(Dict([actor |-> "ai"]), quiet)
    \o Repeat(Dict([actor |-> "user"]), users)

ZaraState == [player_character_data |-> <<[key |-> Zara, info |-> Dict(EmptyDict)]>>]

Alpha == <<"A", "l", "p", "h", "a">>

Beta == <<"B", "e", "t", "a">>

Gamma == <<"G", "a", "m", "m", "a">>

SarielV2 == <<"S", "a", "r", "i", "e", "l", " ", "v", "2">>

SarielV2Upper == <<"S", "A", "R", "I", "E", "L", " ", "V", "2">>

SarielAwakening == <<"S", "a", "r", "i", "e", "l", ":", " ", "A", "w", "a", "k", "e", "n", "i", "n",
        "g">>

TestCampaign == <<"T", "e", "s", "t", " ", "C", "a", "m", "p", "a", "i", "g", "n">>

TestDash == <<"t", "e", "s", "t", "-", "7">>

\* name or title, and story: the campaigns that fill the longer lists have
\* the rates 1 (Alpha), 1/2 (Beta) and 0 (Sariel v2)
CoreCampaigns ==
    {[name |-> Alpha, story |-> StoryOf(6, 0, 14)],
     [name |-> Beta, story |-> StoryOf(3, 3, 14)],
     [name |-> SarielV2, story |-> StoryOf(0, 6, 14)]}

OtherCampaigns ==
    {[name |-> Gamma, story |-> StoryOf(0, 6, 14)],
     [name |-> Gamma, story |-> StoryOf(4, 0, 16)],
     [name |-> Gamma, story |-> StoryOf(5, 0, 15)],
     [name |-> Gamma, story |-> StoryOf(1, 19, 0)],
     [name |-> Gamma, story |-> StoryOf(5, 0, 5)],
     [name |-> Gamma, story |-> StoryOf(1, 0, 1)],
     [name |-> Gamma],
     [title |-> SarielV2Upper, story |-> StoryOf(6, 0, 14)],
     [name |-> SarielV2, story |-> StoryOf(1, 0, 1)],
     [name |-> SarielAwakening, story |-> StoryOf(6, 0, 14)],
     [name |-> TestCampaign, story |-> StoryOf(6, 0, 14)],
     [name |-> TestDash, story |-> StoryOf(6, 0, 14)],
     [story |-> StoryOf(6, 0, 14)]}

\* get_all_campaigns adds the id of the user and of the document
Stored(list) ==
    [i \in 1..Len(list) |->
        list[i] @@ [game_state |-> ZaraState, campaign_id |-> i, user_id |-> 1]]

\* a Sariel v2 campaign of rate 1 with 4 AI turns
SarielFewTurns == [name |-> SarielV2, story |-> StoryOf(4, 0, 16)]

CampaignLists ==
    {Stored(l) : l \in UNION {[1..n -> CoreCampaigns] : n \in 0..MaxCampaigns}}
    \cup {Stored(<<SarielFewTurns>> \o l) :
             l \in [1..(MaxCampaigns - 1) ->
                       {c \in CoreCampaigns : c.name \in {Alpha, Beta}}]}
    \cup {Stored(l) : l \in UNION {[1..n -> CoreCampaigns \cup OtherCampaigns] : n \in 1..2}}

(***************************************************************************)
(* Campaigns of one turn, drawn for the path from the extractor through    *)
(* the validator to the classifier: the player character may carry the     *)
(* name of the first NPC record, and NPCs may be absent, unconscious or    *)
(* hidden.                                                                 *)
(***************************************************************************)
ZaraNarrative ==
    <<"Z", "a", "r", "a", " ", "c", "r", "e", "p", "t", " ", "a", "l", "o", "n", "g",
      " ", "t", "h", "e", " ", "w", "a", "l", "l", " ", "w", "h", "i", "l", "e", " ",
      "t", "h", "e", " ", "t", "o", "r", "c", "h", "e", "s", " ", "b", "u", "r", "n",
      "e", "d", " ", "l", "o", "w", ".">>

SingleTurnNpcDatas ==
    {<<>>}
    \cup {<<[key |-> Zara, info |-> a]>> : a \in NpcInfos}
    \cup {<<[key |-> Zara, info |-> a], [key |-> Finn, info |-> b]>> :
             a \in NpcInfos, b \in NpcInfos}

SingleTurnStates ==
    {("player_character_data" :> pc) @@ ("npc_data" :> npcs) @@ cs :
        pc \in PcDatas, npcs \in SingleTurnNpcDatas,
        cs \in Opt("combat_state",
                   {[in_combat |-> FALSE, participants |-> <<Str(Finn)>>],
                    [in_combat |-> TRUE, participants |-> <<Str(Finn), Str(Orc)>>]})}

SingleTurnCampaigns ==
    {[campaign_id |-> "single_turn",
      sessions |-> <<[session_number |-> 1,
                      turns |-> <<[turn_number |-> 1, game_state |-> gs,
                                   narrative |-> n]>>]>>] :
        gs \in SingleTurnStates, n \in {MockNarrative1, ZaraNarrative}}

(***************************************************************************)
(* export_campaign_snapshot of CampaignAnalyzer.                           *)
(***************************************************************************)
\* session.get("session_number") == n, turn.get("turn_number") == n: a
\* missing number is None, which equals no number
NumberIs(d, k, n) == k \in DOMAIN d /\ d[k] = n

\* the loop over the turns of one session: the first turn of the pattern's
\* number is exported and the loop is left
RECURSIVE TurnEntries(_, _, _)
TurnEntries(pattern, turns, t) ==
    IF t > Len(turns)
    THEN <<>>
    ELSE IF NumberIs(turns[t], "turn_number", pattern.turn)
    THEN <<[session |-> pattern.session,
            turn |-> pattern.turn,
            game_state |-> Get(turns[t], "game_state", None),
            narrative |-> Get(turns[t], "narrative", None),
            desync_info |-> to_dict(pattern)]>>
    ELSE TurnEntries(pattern, turns, t + 1)

\* the loop over the sessions: every session of the pattern's number
RECURSIVE SessionEntries(_, _, _)
SessionEntries(pattern, sessions, s) ==
    IF s > Len(sessions)
    THEN <<>>
    ELSE (IF NumberIs(sessions[s], "session_number", pattern.session)
          THEN TurnEntries(pattern, Get(sessions[s], "turns", <<>>), 1)
          ELSE <<>>)
         \o SessionEntries(pattern, sessions, s + 1)

\* the loop over self.desync_patterns
RECURSIVE PatternEntries(_, _, _)
PatternEntries(patterns, sessions, p) ==
    IF p > Len(patterns)
    THEN <<>>
    ELSE SessionEntries(patterns[p], sessions, 1)
         \o PatternEntries(patterns, sessions, p + 1)

export_campaign_snapshot(an, campaign_data_) ==
    [campaign_id |-> Get(campaign_data_, "campaign_id", None),
     campaign_name |-> Get(campaign_data_, "campaign_name", None),
     metadata |->
        [players |-> Get(campaign_data_, "players", <<>>),
         total_sessions |-> Len(Get(campaign_data_, "sessions", <<>>)),
         date_range |-> [start |-> Get(campaign_data_, "start_date", None),
                         end |-> Get(campaign_data_, "last_updated", None)]],
     desync_turns |->
        PatternEntries(an.desync_patterns, Get(campaign_data_, "sessions", <<>>), 1)]

(***************************************************************************)
(* Inputs of export_campaign_snapshot: campaigns whose sessions and turns  *)
(* carry their numbers, lack them or share them.                           *)
(***************************************************************************)
Without(d, k) == [j \in DOMAIN d \ {k} |-> d[j]]

\* two turns of number 1 with different narratives, and a turn without number
ExportTurns == {MockTurn1, ShortTurn, Without(MockTurn2, "turn_number")}

ExportTurnLists ==
    {<<a>> : a \in ExportTurns} \cup {<<a, b>> : a, b \in ExportTurns}

\* the sessions are numbered 1, 2, ..., all numbered 1, or not numbered
Numberings == {"counted", "same", "missing"}

NumberedSession(numbering, i, turns) ==
    CASE numbering = "counted" -> [session_number |-> i, turns |-> turns]
      [] numbering = "same" -> [session_number |-> 1, turns |-> turns]
      [] OTHER -> [turns |-> turns]

ExportCampaigns ==
    {[campaign_id |-> "sariel_v2_001", campaign_name |-> "Sariel v2: The Awakening",
      sessions |-> [i \in 1..Len(ss) |-> NumberedSession(numbering, i, ss[i])]] :
        ss \in UNION {[1..n -> ExportTurnLists] : n \in 1..MaxSessions},
        numbering \in Numberings}

(***************************************************************************)
(* MockGeminiAPI: _extract_entities_from_prompt, _generate_mock_response,  *)
(* generate_narrative and batch_generate.                                  *)
(***************************************************************************)
Newline == "\n"

\* len(text.split()): the number of places where a word starts. The
\* whitespace of the prompts and responses is the space and the newline
IsBlank(c) == c \in {" ", Newline}

WordCount(s) ==
    Cardinality({i \in 1..Len(s) : ~IsBlank(s[i]) /\ (i = 1 \/ IsBlank(s[i - 1]))})

StartsAt(s, i, sub) ==
    /\ i + Len(sub) - 1 <= Len(s)
    /\ \A j \in 1..Len(sub) : s[i + j - 1] = sub[j]

\* the first place at or after i where sub starts in s, 0 when there is none
RECURSIVE FindFrom(_, _, _)
FindFrom(s, sub, i) ==
    IF i + Len(sub) - 1 > Len(s)
    THEN 0
    ELSE IF StartsAt(s, i, sub) THEN i ELSE FindFrom(s, sub, i + 1)

\* str.split(sep)
RECURSIVE SplitOn(_, _)
SplitOn(s, sep) ==
    LET k == FindFrom(s, sep, 1)
    IN  IF k = 0
        THEN <<s>>
        ELSE <<SubSeq(s, 1, k - 1)>> \o SplitOn(SubSeq(s, k + Len(sep), Len(s)), sep)

\* str.strip()
RECURSIVE Strip(_)
Strip(s) ==
    IF s = <<>>
    THEN s
    ELSE IF IsBlank(Head(s))
    THEN Strip(Tail(s))
    ELSE IF IsBlank(s[Len(s)])
    THEN Strip(SubSeq(s, 1, Len(s) - 1))
    ELSE s

\* sep.join(list)
RECURSIVE Join(_, _)
Join(sep, list) ==
    IF list = <<>>
    THEN <<>>
    ELSE IF Len(list) = 1
    THEN list[1]
    ELSE list[1] \o sep \o Join(sep, Tail(list))

\* "".join(list)
RECURSIVE Cat(_)
Cat(list) ==
    IF list = <<>>
    THEN <<>>
    ELSE IF Len(list) = 1
    THEN list[1]
    ELSE Cat(SubSeq(list, 1, Len(list) \div 2))
         \o Cat(SubSeq(list, Len(list) \div 2 + 1, Len(list)))

StripAll(list) == [i \in 1..Len(list) |-> Strip(list[i])]

PresentColon ==
    <<"P", "r", "e", "s", "e", "n", "t", ":">>

OpenEntity ==
    <<"<", "e", "n", "t", "i", "t", "y", ">">>

CloseEntity ==
    <<"<", "/", "e", "n", "t", "i", "t", "y", ">">>

EntitiesMentionedKey ==
    <<"\"", "e", "n", "t", "i", "t", "i", "e", "s", "_", "m", "e", "n", "t", "i", "o",
      "n", "e", "d", "\"">>

Lyra ==
    <<"L", "y", "r", "a">>

Theron ==
    <<"T", "h", "e", "r", "o", "n">>

Marcus ==
    <<"M", "a", "r", "c", "u", "s">>

Elara ==
    <<"E", "l", "a", "r", "a">>

\* re.findall(r"<entity>(.*?)</entity>", prompt): the dot matches no newline
RECURSIVE EntityTagsFrom(_, _)
EntityTagsFrom(s, i) ==
    LET open == FindFrom(s, OpenEntity, i)
        start == open + Len(OpenEntity)
        close == FindFrom(s, CloseEntity, start)
        nl == FindFrom(s, <<Newline>>, start)
    IN  IF open = 0
        THEN <<>>
        ELSE IF close = 0
        THEN <<>>
        ELSE IF nl # 0 /\ nl < close
        THEN EntityTagsFrom(s, open + 1)
        ELSE <<SubSeq(s, start, close - 1)>>
             \o EntityTagsFrom(s, close + Len(CloseEntity))

Digits == {"0", "1", "2", "3", "4", "5", "6", "7", "8", "9"}

\* \w of the regular expressions, on ASCII text
IsWordChar(c) == c \in Range(UpperLetters) \cup Range(LowerLetters) \cup Digits \cup {"_"}

\* the last place of the run of lowercase letters that starts at i, i - 1
\* when s[i] is no lowercase letter
RECURSIVE RunEnd(_, _)
RunEnd(s, i) ==
    IF i <= Len(s) /\ s[i] \in Range(LowerLetters) THEN RunEnd(s, i + 1) ELSE i - 1

\* re.findall(r"\b[A-Z][a-z]+\b", prompt)
RECURSIVE CapitalizedFrom(_, _)
CapitalizedFrom(s, i) ==
    IF i > Len(s)
    THEN <<>>
    ELSE IF /\ s[i] \in Range(UpperLetters)
            /\ (i = 1 \/ ~IsWordChar(s[i - 1]))
            /\ RunEnd(s, i + 1) > i
            /\ (RunEnd(s, i + 1) = Len(s) \/ ~IsWordChar(s[RunEnd(s, i + 1) + 1]))
    THEN <<SubSeq(s, i, RunEnd(s, i + 1))>> \o CapitalizedFrom(s, RunEnd(s, i + 1) + 1)
    ELSE CapitalizedFrom(s, i + 1)

CommonWords ==
    {<<"T", "h", "e">>,
     <<"L", "o", "c", "a", "t", "i", "o", "n">>,
     <<"C", "h", "a", "r", "a", "c", "t", "e", "r">>,
     <<"N", "a", "r", "r", "a", "t", "i", "v", "e">>,
     <<"G", "e", "n", "e", "r", "a", "t", "e">>,
     <<"C", "o", "n", "t", "i", "n", "u", "e">>,
     <<"W", "r", "i", "t", "e">>,
     <<"P", "r", "e", "s", "e", "n", "t">>,
     <<"R", "E", "Q", "U", "I", "R", "E", "M", "E", "N", "T", "S">>}

EntityLimit == 4

_extract_entities_from_prompt(prompt) ==
    Slice(IF Contains(PresentColon, prompt)
          THEN StripAll(SplitOn(SplitOn(SplitOn(prompt, PresentColon)[2], <<Newline>>)[1],
                                <<",">>))
          ELSE IF Contains(OpenEntity, prompt)
          THEN EntityTagsFrom(prompt, 1)
          ELSE IF Contains(EntitiesMentionedKey, prompt)
          THEN (IF Contains(Lyra, prompt) THEN <<Lyra, Theron, Marcus, Elara>> ELSE <<>>)
          ELSE SelectSeq(CapitalizedFrom(prompt, 1), LAMBDA w : w \notin CommonWords),
          EntityLimit)

\* json.dumps of a string of printable ASCII characters
JsonEscape(s) ==
    Cat([i \in 1..Len(s) |-> IF s[i] \in {"\"", "\\"} THEN <<"\\", s[i]>> ELSE <<s[i]>>])

JsonString(s) == <<"\"">> \o JsonEscape(s) \o <<"\"">>

\* json.dumps(list, indent=2) of a list of strings, one level deep
JsonList(list) ==
    IF list = <<>>
    THEN <<"[", "]">>
    ELSE <<"[", Newline>>
         \o Join(<<",", Newline>>,
                 [i \in 1..Len(list) |-> <<" ", " ", " ", " ">> \o JsonString(list[i])])
         \o <<Newline, " ", " ", "]">>

IncludedStructured == 3

IncludedChain == 2

AndSep ==
    <<" ", "a", "n", "d", " ">>

PartyGathered ==
    <<"T", "h", "e", " ", "p", "a", "r", "t", "y", " ", "g", "a", "t", "h", "e", "r",
      "e", "d", " ", "t", "o", "g", "e", "t", "h", "e", "r", ".", " ">>

DiscussedPlans ==
    <<" ", "d", "i", "s", "c", "u", "s", "s", "e", "d", " ", "t", "h", "e", "i", "r",
      " ", "p", "l", "a", "n", "s", ".">>

JsonNarrativeKey ==
    <<"{", Newline, " ", " ", "\"", "n", "a", "r", "r", "a", "t", "i", "v", "e", "\"", ":",
      " ">>

JsonEntitiesKey ==
    <<",", Newline, " ", " ", "\"", "e", "n", "t", "i", "t", "i", "e", "s", "_", "m", "e",
      "n", "t", "i", "o", "n", "e", "d", "\"", ":", " ">>

JsonLocationTail ==
    <<",", Newline, " ", " ", "\"", "l", "o", "c", "a", "t", "i", "o", "n", "_", "c", "o",
      "n", "f", "i", "r", "m", "e", "d", "\"", ":", " ", "\"", "T", "h", "e", " ", "S",
      "i", "l", "v", "e", "r", " ", "S", "t", "a", "g", " ", "T", "a", "v", "e", "r",
      "n", "\"", Newline, "}">>

StoodReady ==
    <<" ", "s", "t", "o", "o", "d", " ", "r", "e", "a", "d", "y", " ", "f", "o", "r",
      " ", "a", "c", "t", "i", "o", "n", ".">>

XmlHead ==
    <<"<", "n", "a", "r", "r", "a", "t", "i", "v", "e", ">", Newline, " ", " ", " ", " ",
      "<", "l", "o", "c", "a", "t", "i", "o", "n", ">", "T", "h", "e", " ", "S", "i",
      "l", "v", "e", "r", " ", "S", "t", "a", "g", " ", "T", "a", "v", "e", "r", "n",
      "<", "/", "l", "o", "c", "a", "t", "i", "o", "n", ">", Newline, " ", " ", " ", " ",
      "<", "r", "e", "q", "u", "i", "r", "e", "d", "_", "e", "n", "t", "i", "t", "i",
      "e", "s", ">", Newline, " ", " ", " ", " ", " ", " ", " ", " ">>

XmlIndent ==
    <<" ", " ", " ", " ", " ", " ", " ", " ">>

XmlMiddle ==
    <<Newline, " ", " ", " ", " ", "<", "/", "r", "e", "q", "u", "i", "r", "e", "d", "_",
      "e", "n", "t", "i", "t", "i", "e", "s", ">", Newline, " ", " ", " ", " ", "<", "s",
      "t", "o", "r", "y", ">", Newline, " ", " ", " ", " ", " ", " ", " ", " ">>

XmlTail ==
    <<Newline, " ", " ", " ", " ", "<", "/", "s", "t", "o", "r", "y", ">", Newline, "<", "/",
      "n", "a", "r", "r", "a", "t", "i", "v", "e", ">">>

WhoIsPresent ==
    <<"W", "h", "o", " ", "i", "s", " ", "p", "r", "e", "s", "e", "n", "t", ":", Newline,
      "-", " ">>

PresentAndReady ==
    <<":", " ", "p", "r", "e", "s", "e", "n", "t", " ", "a", "n", "d", " ", "r", "e",
      "a", "d", "y", Newline>>

Dash ==
    <<"-", " ">>

ColonPresent ==
    <<":", " ", "p", "r", "e", "s", "e", "n", "t">>

ColonAbsent ==
    <<":", " ", "a", "b", "s", "e", "n", "t">>

NarrativeColon ==
    <<Newline, Newline, "N", "a", "r", "r", "a", "t", "i", "v", "e", ":", " ">>

SurveyedTheScene ==
    <<" ", "s", "u", "r", "v", "e", "y", "e", "d", " ", "t", "h", "e", " ", "s", "c",
      "e", "n", "e">>

While ==
    <<" ", "w", "h", "i", "l", "e", " ">>

StoodNearby ==
    <<" ", "s", "t", "o", "o", "d", " ", "n", "e", "a", "r", "b", "y">>

InTheScene ==
    <<"I", "n", " ", "t", "h", "e", " ", "s", "c", "e", "n", "e", ",">>

AndWord ==
    <<"a", "n", "d", " ">>

WereAllPresent ==
    <<"w", "e", "r", "e", " ", "a", "l", "l", " ", "p", "r", "e", "s", "e", "n", "t",
      ".">>

LookedAround ==
    <<" ", "l", "o", "o", "k", "e", "d", " ", "a", "r", "o", "u", "n", "d", " ", "t",
      "h", "e", " ", "a", "r", "e", "a", ",", " ", "r", "e", "a", "d", "y", " ", "f",
      "o", "r", " ", "w", "h", "a", "t", "e", "v", "e", "r", " ", "c", "a", "m", "e",
      " ", "n", "e", "x", "t", ".">>

SceneWasQuiet ==
    <<"T", "h", "e", " ", "s", "c", "e", "n", "e", " ", "w", "a", "s", " ", "q", "u",
      "i", "e", "t", ".">>

Approaches ==
    {"baseline", "json_structured", "xml_structured", "chain_of_thought",
     "validation_hints"}

\* the approaches under which _generate_mock_response raises IndexError:
\* entities[0] of an empty list
ResponseRaises(prompt, approach) ==
    approach = "chain_of_thought" /\ _extract_entities_from_prompt(prompt) = <<>>

_generate_mock_response(prompt, approach) ==
    LET entities_ == _extract_entities_from_prompt(prompt)
        included == Slice(entities_, IF approach = "chain_of_thought"
                                     THEN IncludedChain
                                     ELSE IncludedStructured)
    IN  CASE approach = "json_structured" ->
                JsonNarrativeKey
                \o JsonString(PartyGathered \o Join(AndSep, included) \o DiscussedPlans)
                \o JsonEntitiesKey \o JsonList(included) \o JsonLocationTail
          [] approach = "xml_structured" ->
                XmlHead
                \o Join(<<Newline>>,
                        [i \in 1..Len(included) |->
                            XmlIndent \o OpenEntity \o included[i] \o CloseEntity])
                \o XmlMiddle \o Join(AndSep, included) \o StoodReady \o XmlTail
          [] approach = "chain_of_thought" ->
                WhoIsPresent \o entities_[1] \o PresentAndReady
                \o (IF Len(entities_) > 1 THEN Dash \o entities_[2] \o ColonPresent ELSE <<>>)
                \o <<Newline>>
                \o (IF Len(entities_) > 2 THEN Dash \o entities_[3] \o ColonAbsent ELSE <<>>)
                \o NarrativeColon \o included[1] \o SurveyedTheScene
                \o (IF Len(included) > 1 THEN While \o included[2] \o StoodNearby ELSE <<>>)
                \o <<".">>
          [] approach = "validation_hints" ->
                Join(<<" ">>,
                     <<InTheScene>>
                     \o [i \in 1..Len(entities_) |->
                            IF i = Len(entities_)
                            THEN AndWord \o entities_[i]
                            ELSE entities_[i] \o <<",">>]
                     \o <<WereAllPresent>>)
          [] OTHER ->
                IF entities_ # <<>>
                THEN entities_[1] \o LookedAround
                ELSE SceneWasQuiet

GeminiModel == "gemini-1.5-flash"

GeminiResponse(text_, tokens_used, generation_time_ms) ==
    [text |-> text_, tokens_used |-> tokens_used,
     generation_time_ms |-> generation_time_ms, model |-> GeminiModel]

\* generate_narrative when the simulated failure does not strike
generate_narrative(prompt, approach, delay_ms) ==
    GeminiResponse(_generate_mock_response(prompt, approach),
                   WordCount(prompt) + WordCount(_generate_mock_response(prompt, approach)),
                   delay_ms)

ErrorPrefix ==
    <<"E", "r", "r", "o", "r", ":", " ">>

MockApiTimeout ==
    <<"M", "o", "c", "k", " ", "A", "P", "I", " ", "t", "i", "m", "e", "o", "u", "t">>

ListIndexOutOfRange ==
    <<"l", "i", "s", "t", " ", "i", "n", "d", "e", "x", " ", "o", "u", "t", " ", "o",
      "f", " ", "r", "a", "n", "g", "e">>

\* the response batch_generate appends for an exception
ErrorResponse(message) == GeminiResponse(ErrorPrefix \o message, 0, 0)

\* mutant: a failed generation is counted as a call
BatchPass_counts_failures(api, prompt, approach, failed, delay_ms) ==
    IF failed
    THEN [response |-> ErrorResponse(MockApiTimeout),
          call_count |-> api.call_count + 1, total_tokens |-> api.total_tokens]
    ELSE IF ResponseRaises(prompt, approach)
    THEN [response |-> ErrorResponse(ListIndexOutOfRange),
          call_count |-> api.call_count + 1, total_tokens |-> api.total_tokens]
    ELSE [response |-> generate_narrative(prompt, approach, delay_ms),
          call_count |-> api.call_count + 1,
          total_tokens |->
              api.total_tokens + generate_narrative(prompt, approach, delay_ms).tokens_used]

\* one pass of the loop of batch_generate on an API whose counters are
\* given: the response appended and the counters afterwards. failed is the
\* outcome of random.random() < self.failure_rate
BatchPass(api, prompt, approach, failed, delay_ms) ==
    IF failed
    THEN [response |-> ErrorResponse(MockApiTimeout),
          call_count |-> api.call_count, total_tokens |-> api.total_tokens]
    ELSE IF ResponseRaises(prompt, approach)
    THEN [response |-> ErrorResponse(ListIndexOutOfRange),
          call_count |-> api.call_count, total_tokens |-> api.total_tokens]
    ELSE [response |-> generate_narrative(prompt, approach, delay_ms),
          call_count |-> api.call_count + 1,
          total_tokens |->
              api.total_tokens + generate_narrative(prompt, approach, delay_ms).tokens_used]

(***************************************************************************)
(* Inputs of batch_generate.                                               *)
(***************************************************************************)
MaxPrompts == 2

PresentPrompt ==
    <<"P", "r", "e", "s", "e", "n", "t", ":", " ", "L", "y", "r", "a", ",", " ", "T",
      "h", "e", "r", "o", "n">>

ContinuePrompt ==
    <<"L", "y", "r", "a", " ", "m", "e", "t", " ", "T", "h", "e", "r", "o", "n", ".",
      " ", "C", "o", "n", "t", "i", "n", "u", "e">>

QuietPrompt ==
    <<"q", "u", "i", "e", "t", " ", "n", "i", "g", "h", "t">>

EntityPrompt ==
    <<"<", "e", "n", "t", "i", "t", "y", ">", "L", "y", "r", "a", "<", "/", "e", "n",
      "t", "i", "t", "y", ">", "<", "e", "n", "t", "i", "t", "y", ">", "B", "o", "<",
      "/", "e", "n", "t", "i", "t", "y", ">">>

JsonPrompt ==
    <<"R", "e", "t", "u", "r", "n", " ", "\"", "e", "n", "t", "i", "t", "i", "e", "s",
      "_", "m", "e", "n", "t", "i", "o", "n", "e", "d", "\"", " ", "f", "o", "r", " ",
      "L", "y", "r", "a">>

FivePresentPrompt ==
    <<"P", "r", "e", "s", "e", "n", "t", ":", " ", "A", ",", " ", "B", ",", " ", "C",
      ",", " ", "D", ",", " ", "E", Newline, "m", "o", "r", "e">>


\* pairs (prompt, approach): every approach, every way of finding the
\* entities, and a chain of thought without entities
PromptPairs ==
    {<<PresentPrompt, "baseline">>,
     <<ContinuePrompt, "validation_hints">>,
     <<QuietPrompt, "chain_of_thought">>,
     <<EntityPrompt, "xml_structured">>,
     <<JsonPrompt, "json_structured">>,
     <<FivePresentPrompt, "chain_of_thought">>}

PromptLists == UNION {[1..n -> PromptPairs] : n \in 0..MaxPrompts}

\* the counters of a new API, and those of an API after a batch of two
\* successful generations of 13 and 12 tokens
PriorUse == {<<0, 0>>, <<2, 25>>}

\* generation_time_ms of a generation: delay * 1000 for the shortest and
\* the longest delay
Delays == {500, 2000}

(***************************************************************************)
(* State.                                                                  *)
(***************************************************************************)
VARIABLES
    text,        \* validate_entity: the text argument
    entity,      \* validate_entity: the entity argument
    is_present,  \* validate_entity: the value returned
    mpc,         \* validate_entity: "idle", "call" (arguments bound), "done"
    game_state,        \* the extractors: the game_state argument
    expected_entities, \* the list _extract_expected_entities returned
    entities,          \* the dict extract_entities_from_state returned
    xpc,               \* the extractors: "idle", "call", "analyzer", "done"
    validation_result, \* the classifier: the validation_result argument
    narrative,         \* the classifier: the narrative argument
    pattern_type,      \* the category _classify_desync_pattern returned
    cpc,               \* the classifier: "idle", "call", "done"
    results,           \* ValidationOnlyApproach.results
    vpc,               \* ValidationOnlyApproach: "off" or "ready"
    campaign_data,     \* the campaign handed to analyze_campaign
    metrics,           \* CampaignAnalyzer.metrics
    desync_patterns,   \* CampaignAnalyzer.desync_patterns
    reports,           \* the reports analyze_campaign has returned, in order
    apc,               \* CampaignAnalyzer: "off", "idle", "sessions" (in the loop),
                       \* "raised" (analyze_campaign left by an exception)
    session_index,     \* the session the loop of analyze_campaign is at
    turn_index,        \* the turn the loop of _analyze_session is at
    campaign_doc,      \* the selectors: the campaign document, [exists, data]
    limit,             \* analyze_campaign of the selector: the limit argument
    analysis,          \* the selectors: the analysis being built, then returned
    entry_index,       \* the selectors: the story entries already passed
    spc,               \* the selectors: "off", "0.4", "done", "real", "returned"
    all_campaigns,     \* the selections: the campaigns the database holds
    real_campaigns,    \* the selections: the campaigns kept by the first filter
    analyzed_campaigns,\* the selections: the list analyzed_campaigns / analyzed
    sariel_found,      \* the selections: the flag sariel_found
    selection_report,  \* the selections: the report written
    campaign_index,    \* the selections: the campaigns the loop has passed
    tpc,               \* the selections: "off", "0.4", "real", then "sariel",
                       \* "others" (the loops of campaign_selector_0.4.py),
                       \* "done"; "loop" (the loop of campaign_selector_real.py),
                       \* "finished"
    snapshot,          \* export_campaign_snapshot: the snapshot written
    prompts,           \* batch_generate: the prompts argument
    batch_results,     \* batch_generate: the list results
    call_count,        \* MockGeminiAPI.call_count
    total_tokens,      \* MockGeminiAPI.total_tokens
    prompt_index,      \* batch_generate: the pair the loop is at
    gpc                \* batch_generate: "off", "loop", "returned"

matcherVars == <<text, entity, is_present, mpc>>

extractVars == <<game_state, expected_entities, entities, xpc>>

classifyVars == <<validation_result, narrative, pattern_type, cpc>>

voaVars == <<results, vpc>>

analyzerVars ==
    <<campaign_data, metrics, desync_patterns, reports, apc, session_index, turn_index>>

selectorVars == <<campaign_doc, limit, analysis, entry_index, spc>>

selectionVars ==
    <<all_campaigns, real_campaigns, analyzed_campaigns, sariel_found,
      selection_report, campaign_index, tpc>>

exportVars == <<snapshot>>

geminiVars == <<prompts, batch_results, call_count, total_tokens, prompt_index, gpc>>

vars ==
    <<text, entity, is_present, mpc, game_state, expected_entities, entities, xpc,
      validation_result, narrative, pattern_type, cpc, results, vpc,
      campaign_data, metrics, desync_patterns, reports, apc, session_index,
      turn_index, campaign_doc, limit, analysis, entry_index, spc,
      all_campaigns, real_campaigns, analyzed_campaigns, sariel_found,
      selection_report, campaign_index, tpc, snapshot, prompts, batch_results,
      call_count, total_tokens, prompt_index, gpc>>

MatcherIdle ==
    /\ text = <<>>
    /\ entity = <<>>
    /\ is_present = FALSE
    /\ mpc = "idle"

(***************************************************************************)
(* The matcher as a state machine: one call of validate_entity.            *)
(***************************************************************************)
NoEntities ==
    [player_characters |-> {}, npcs |-> {}, locations |-> {}, items |-> {},
     active_entities |-> {}]

ExtractIdle ==
    /\ game_state = EmptyDict
    /\ expected_entities = <<>>
    /\ entities = NoEntities
    /\ xpc = "idle"

NoValidation == [entities_found |-> <<>>, entities_missing |-> <<>>]

ClassifyIdle ==
    /\ validation_result = NoValidation
    /\ narrative = <<>>
    /\ pattern_type = "none"
    /\ cpc = "idle"

VoaIdle ==
    /\ results = <<>>
    /\ vpc = "off"

AnalyzerIdle ==
    /\ campaign_data = EmptyDict
    /\ metrics = FreshMetrics
    /\ desync_patterns = <<>>
    /\ reports = <<>>
    /\ apc = "off"
    /\ session_index = 0
    /\ turn_index = 0

SelectorIdle ==
    /\ campaign_doc = [exists |-> FALSE, data |-> EmptyDict]
    /\ limit = 0
    /\ analysis = EmptyDict
    /\ entry_index = 0
    /\ spc = "off"

SelectionIdle ==
    /\ all_campaigns = <<>>
    /\ real_campaigns = <<>>
    /\ analyzed_campaigns = <<>>
    /\ sariel_found = FALSE
    /\ selection_report = EmptyDict
    /\ campaign_index = 0
    /\ tpc = "off"

ExportIdle == snapshot = None

GeminiIdle ==
    /\ prompts = <<>>
    /\ batch_results = <<>>
    /\ call_count = 0
    /\ total_tokens = 0
    /\ prompt_index = 0
    /\ gpc = "off"

MatcherInit ==
    /\ text \in MatcherTexts
    /\ entity \in MatcherNames
    /\ is_present = FALSE
    /\ mpc = "call"
    /\ ExtractIdle
    /\ ClassifyIdle
    /\ VoaIdle
    /\ AnalyzerIdle
    /\ SelectorIdle
    /\ SelectionIdle
    /\ ExportIdle
    /\ GeminiIdle

ValidateEntity ==
    /\ mpc = "call"
    /\ is_present' = validate_entity(text, entity)
    /\ mpc' = "done"
    /\ UNCHANGED <<text, entity>>
    /\ UNCHANGED <<extractVars, classifyVars, voaVars, analyzerVars, selectorVars,
                   selectionVars, exportVars, geminiVars>>

MatcherNext == ValidateEntity

SpecMatcher == MatcherInit /\ [][MatcherNext]_vars

(***************************************************************************)
(* The extractors as a state machine: both are applied to one game state.  *)
(***************************************************************************)
ExtractInit ==
    /\ game_state \in GameStates
    /\ expected_entities = <<>>
    /\ entities = NoEntities
    /\ xpc = "call"
    /\ MatcherIdle
    /\ ClassifyIdle
    /\ VoaIdle
    /\ AnalyzerIdle
    /\ SelectorIdle
    /\ SelectionIdle
    /\ ExportIdle
    /\ GeminiIdle

ExtractExpected ==
    /\ xpc = "call"
    /\ expected_entities' = _extract_expected_entities(game_state)
    /\ xpc' = "analyzer"
    /\ UNCHANGED <<game_state, entities>>
    /\ UNCHANGED <<matcherVars, classifyVars, voaVars, analyzerVars, selectorVars,
                   selectionVars, exportVars, geminiVars>>

ExtractFromState ==
    /\ xpc = "analyzer"
    /\ entities' = extract_entities_from_state(game_state)
    /\ xpc' = "done"
    /\ UNCHANGED <<game_state, expected_entities>>
    /\ UNCHANGED <<matcherVars, classifyVars, voaVars, analyzerVars, selectorVars,
                   selectionVars, exportVars, geminiVars>>

ExtractNext == ExtractExpected \/ ExtractFromState

SpecExtract == ExtractInit /\ [][ExtractNext]_vars

(***************************************************************************)
(* The classifier as a state machine: one call of                          *)
(* _classify_desync_pattern, made only with a non-empty missing list.      *)
(***************************************************************************)
ClassifyInit ==
    /\ game_state \in ClassifierStates
    /\ validation_result \in ValidationResults
    /\ narrative \in {<<>>, TheCryptWasSilent}
    /\ pattern_type = "none"
    /\ cpc = "call"
    /\ expected_entities = <<>>
    /\ entities = NoEntities
    /\ xpc = "idle"
    /\ MatcherIdle
    /\ VoaIdle
    /\ AnalyzerIdle
    /\ SelectorIdle
    /\ SelectionIdle
    /\ ExportIdle
    /\ GeminiIdle

Classify ==
    /\ cpc = "call"
    /\ validation_result["entities_missing"] # <<>>
    /\ pattern_type' = _classify_desync_pattern(game_state, validation_result, narrative)
    /\ cpc' = "done"
    /\ UNCHANGED <<validation_result, narrative>>
    /\ UNCHANGED <<matcherVars, extractVars, voaVars, analyzerVars, selectorVars,
                   selectionVars, exportVars, geminiVars>>

ClassifyNext == Classify

SpecClassify == ClassifyInit /\ [][ClassifyNext]_vars

(***************************************************************************)
(* Analyses as a state machine.  A behaviour is either a                   *)
(* ValidationOnlyApproach that tests one scenario, or a CampaignAnalyzer   *)
(* that is handed one campaign: analyze_campaign runs turn by turn, may    *)
(* be called again on the same analyzer, and the caller may construct a    *)
(* new analyzer between two calls.                                         *)
(***************************************************************************)
VoaInit ==
    /\ game_state \in VoaStates
    /\ narrative \in Narratives
    /\ results = <<>>
    /\ vpc = "ready"
    /\ expected_entities = <<>>
    /\ entities = NoEntities
    /\ xpc = "idle"
    /\ validation_result = NoValidation
    /\ pattern_type = "none"
    /\ cpc = "idle"
    /\ MatcherIdle
    /\ AnalyzerIdle
    /\ SelectorIdle
    /\ SelectionIdle
    /\ ExportIdle
    /\ GeminiIdle

TestCampaignScenario ==
    /\ vpc = "ready"
    /\ Len(results) < MaxResults
    /\ \E order \in Orderings(extract_entities_from_state(game_state).active_entities) :
           results' = Append(results,
                             test_campaign_scenario("campaign", "scenario", game_state,
                                                    narrative, order))
    /\ UNCHANGED vpc
    /\ UNCHANGED <<matcherVars, extractVars, classifyVars, analyzerVars, selectorVars,
                   selectionVars, exportVars, geminiVars>>

AnalyzerInit ==
    /\ campaign_data \in Campaigns \cup MalformedCampaigns
    /\ metrics = FreshMetrics
    /\ desync_patterns = <<>>
    /\ reports = <<>>
    /\ apc = "idle"
    /\ session_index = 0
    /\ turn_index = 0
    /\ MatcherIdle
    /\ ExtractIdle
    /\ ClassifyIdle
    /\ VoaIdle
    /\ SelectorIdle
    /\ SelectionIdle
    /\ ExportIdle
    /\ GeminiIdle

Sessions == Get(campaign_data, "sessions", <<>>)

SessionTurns(s) == Get(Sessions[s], "turns", <<>>)

\* analyze_campaign is called
StartAnalyze ==
    /\ apc = "idle"
    /\ Len(reports) < MaxCalls
    /\ apc' = "sessions"
    /\ session_index' = 1
    /\ turn_index' = 1
    /\ UNCHANGED <<campaign_data, metrics, desync_patterns, reports>>
    /\ UNCHANGED <<matcherVars, extractVars, classifyVars, voaVars, selectorVars,
                   selectionVars, exportVars, geminiVars>>

\* one pass of the loop of _analyze_session
AnalyzeTurn ==
    /\ apc = "sessions"
    /\ session_index <= Len(Sessions)
    /\ turn_index <= Len(SessionTurns(session_index))
    /\ LET turn_data == SessionTurns(session_index)[turn_index]
           after == _analyze_turn(
                        [metrics |-> metrics, desync_patterns |-> desync_patterns],
                        Get(Sessions[session_index], "session_number", 0),
                        turn_data)
       IN  IF ExtractRaises(Get(turn_data, "game_state", EmptyDict))
           THEN \* the turn is counted, then the exception leaves analyze_campaign
                /\ metrics' = [metrics EXCEPT !.total_turns = @ + 1]
                /\ desync_patterns' = desync_patterns
                /\ apc' = "raised"
                /\ turn_index' = turn_index
           ELSE /\ metrics' = after.metrics
                /\ desync_patterns' = after.desync_patterns
                /\ apc' = apc
                /\ turn_index' = turn_index + 1
    /\ UNCHANGED <<campaign_data, reports, session_index>>
    /\ UNCHANGED <<matcherVars, extractVars, classifyVars, voaVars, selectorVars,
                   selectionVars, exportVars, geminiVars>>

\* _analyze_session returns
EndSession ==
    /\ apc = "sessions"
    /\ session_index <= Len(Sessions)
    /\ turn_index > Len(SessionTurns(session_index))
    /\ session_index' = session_index + 1
    /\ turn_index' = 1
    /\ UNCHANGED <<campaign_data, metrics, desync_patterns, reports, apc>>
    /\ UNCHANGED <<matcherVars, extractVars, classifyVars, voaVars, selectorVars,
                   selectionVars, exportVars, geminiVars>>

\* the sessions are done: metrics["desync_rate"] is set, the report returned
FinishAnalyze ==
    /\ apc = "sessions"
    /\ session_index > Len(Sessions)
    /\ metrics' = ("desync_rate" :> DesyncRate(metrics)) @@ metrics
    /\ reports' = Append(reports, AnalysisReport(campaign_data, metrics, desync_patterns))
    /\ apc' = "idle"
    /\ UNCHANGED <<campaign_data, desync_patterns, session_index, turn_index>>
    /\ UNCHANGED <<matcherVars, extractVars, classifyVars, voaVars, selectorVars,
                   selectionVars, exportVars, geminiVars>>

\* the caller constructs a new CampaignAnalyzer and goes on with it
NewAnalyzer ==
    /\ apc = "idle"
    /\ reports # <<>>
    /\ Len(reports) < MaxCalls
    /\ metrics # FreshMetrics
    /\ metrics' = FreshMetrics
    /\ desync_patterns' = <<>>
    /\ UNCHANGED <<campaign_data, reports, apc, session_index, turn_index>>
    /\ UNCHANGED <<matcherVars, extractVars, classifyVars, voaVars, selectorVars,
                   selectionVars, exportVars, geminiVars>>

(***************************************************************************)
(* The selectors: analyze_campaign of campaign_selector_0.4.py on one      *)
(* fetched document, entry by entry, and analyze_campaign_stories of       *)
(* campaign_selector_real.py on one campaign.                              *)
(***************************************************************************)
SelectorInit ==
    /\ campaign_doc \in CampaignDocs
    /\ limit \in Limits
    /\ analysis = FreshAnalysis
    /\ entry_index = 0
    /\ spc = "0.4"
    /\ MatcherIdle
    /\ ExtractIdle
    /\ ClassifyIdle
    /\ VoaIdle
    /\ AnalyzerIdle
    /\ SelectionIdle
    /\ ExportIdle
    /\ GeminiIdle

story_entries == Get(campaign_doc.data, "story", <<>>)

\* one pass of the loop of analyze_campaign
SelectorAnalyzeEntry ==
    /\ spc = "0.4"
    /\ campaign_doc.exists
    /\ entry_index < Len(story_entries)
    /\ analysis.total_turns < limit
    /\ LET gs == Get(campaign_doc.data, "game_state", EmptyDict)
       IN  \E order \in Orderings(SelectorExpected(gs)) :
               analysis' = AnalyzeEntry(analysis, entry_index,
                                        story_entries[entry_index + 1], gs, order)
    /\ entry_index' = entry_index + 1
    /\ UNCHANGED <<campaign_doc, limit, spc>>
    /\ UNCHANGED <<matcherVars, extractVars, classifyVars, voaVars, analyzerVars,
                   selectionVars, exportVars, geminiVars>>

\* the loop is left (no document, no entry left or the limit reached) and
\* analyze_campaign returns
SelectorFinish ==
    /\ spc = "0.4"
    /\ \/ ~campaign_doc.exists
       \/ entry_index >= Len(story_entries)
       \/ analysis.total_turns >= limit
    /\ analysis' = FinishAnalysis(analysis)
    /\ spc' = "done"
    /\ UNCHANGED <<campaign_doc, limit, entry_index>>
    /\ UNCHANGED <<matcherVars, extractVars, classifyVars, voaVars, analyzerVars,
                   selectionVars, exportVars, geminiVars>>

StoriesInit ==
    /\ campaign_doc \in {[exists |-> TRUE, data |-> d] : d \in StoryCampaigns}
    /\ limit = 0
    /\ analysis = FreshStoryAnalysis
    /\ entry_index = 0
    /\ spc = "real"
    /\ MatcherIdle
    /\ ExtractIdle
    /\ ClassifyIdle
    /\ VoaIdle
    /\ AnalyzerIdle
    /\ SelectionIdle
    /\ ExportIdle
    /\ GeminiIdle

\* one pass of the loop of analyze_campaign_stories
StoriesAnalyzeEntry ==
    /\ spc = "real"
    /\ entry_index < Len(LastEntries(story_entries))
    /\ LET gs == Get(campaign_doc.data, "game_state", EmptyDict)
       IN  \E order \in Orderings(StoriesExpected(gs)) :
               analysis' = AnalyzeStoryEntry(analysis, entry_index,
                                             LastEntries(story_entries)[entry_index + 1],
                                             order)
    /\ entry_index' = entry_index + 1
    /\ UNCHANGED <<campaign_doc, limit, spc>>
    /\ UNCHANGED <<matcherVars, extractVars, classifyVars, voaVars, analyzerVars,
                   selectionVars, exportVars, geminiVars>>

\* analyze_campaign_stories returns
StoriesFinish ==
    /\ spc = "real"
    /\ entry_index >= Len(LastEntries(story_entries))
    /\ analysis' = StoryAnalysis(analysis)
    /\ spc' = "returned"
    /\ UNCHANGED <<campaign_doc, limit, entry_index>>
    /\ UNCHANGED <<matcherVars, extractVars, classifyVars, voaVars, analyzerVars,
                   selectionVars, exportVars, geminiVars>>

(***************************************************************************)
(* The selections: select_campaigns_for_testing of campaign_selector_0.4   *)
(* and main of campaign_selector_real, each on the campaigns the database  *)
(* holds.                                                                  *)
(***************************************************************************)
SelectionInit ==
    /\ all_campaigns \in CampaignLists
    /\ real_campaigns = <<>>
    /\ analyzed_campaigns = <<>>
    /\ sariel_found = FALSE
    /\ selection_report = EmptyDict
    /\ campaign_index = 0
    /\ tpc \in {"0.4", "real"}
    /\ MatcherIdle
    /\ ExtractIdle
    /\ ClassifyIdle
    /\ VoaIdle
    /\ AnalyzerIdle
    /\ SelectorIdle
    /\ ExportIdle
    /\ GeminiIdle

otherVars ==
    <<matcherVars, extractVars, classifyVars, voaVars, analyzerVars, selectorVars,
      exportVars, geminiVars>>

\* get_all_campaigns and the loop that filters out test campaigns
FilterRealCampaigns ==
    /\ tpc = "0.4"
    /\ real_campaigns' = SelectSeq(all_campaigns, IsRealCampaign)
    /\ tpc' = "sariel"
    /\ UNCHANGED <<all_campaigns, analyzed_campaigns, sariel_found, selection_report,
                   campaign_index>>
    /\ UNCHANGED otherVars

\* the loop "always include Sariel v2 if it exists"
AnalyzeSarielV2 ==
    /\ tpc = "sariel"
    /\ LET k == FirstSarielV2(real_campaigns)
       IN  IF k = 0
           THEN UNCHANGED <<analyzed_campaigns, sariel_found>>
           ELSE /\ \E order \in Orderings(SelectorExpected(real_campaigns[k].game_state)) :
                       analyzed_campaigns' =
                           Append(analyzed_campaigns,
                                  analyze_campaign(real_campaigns[k].campaign_id,
                                                   real_campaigns[k], DefaultLimit, order))
                /\ sariel_found' = TRUE
    /\ tpc' = "others"
    /\ UNCHANGED <<all_campaigns, real_campaigns, selection_report, campaign_index>>
    /\ UNCHANGED otherVars

\* one pass of the loop "analyze other campaigns"
AnalyzeOtherCampaign ==
    /\ tpc = "others"
    /\ campaign_index < Len(real_campaigns)
    /\ Len(analyzed_campaigns) < AnalyzedCap
    /\ LET campaign == real_campaigns[campaign_index + 1]
       IN  IF \E i \in 1..Len(analyzed_campaigns) :
                  analyzed_campaigns[i].campaign_id = campaign.campaign_id
           THEN UNCHANGED analyzed_campaigns
           ELSE \E order \in Orderings(SelectorExpected(campaign.game_state)) :
                    LET an == analyze_campaign(campaign.campaign_id, campaign,
                                               OtherLimit, order)
                    IN  analyzed_campaigns' =
                            IF Meaningful(an)
                            THEN Append(analyzed_campaigns, an)
                            ELSE analyzed_campaigns
    /\ campaign_index' = campaign_index + 1
    /\ UNCHANGED <<all_campaigns, real_campaigns, sariel_found, selection_report, tpc>>
    /\ UNCHANGED otherVars

\* the list is sorted in place and the report is built
WriteSelectionReport ==
    /\ tpc = "others"
    /\ \/ campaign_index >= Len(real_campaigns)
       \/ Len(analyzed_campaigns) >= AnalyzedCap
    /\ analyzed_campaigns' = SortByRate(analyzed_campaigns)
    /\ selection_report' =
           [total_campaigns_analyzed |-> Len(analyzed_campaigns),
            sariel_v2_found |-> sariel_found,
            top_campaigns |-> Slice(SortByRate(analyzed_campaigns), TopCampaigns)]
    /\ tpc' = "done"
    /\ UNCHANGED <<all_campaigns, real_campaigns, sariel_found, campaign_index>>
    /\ UNCHANGED otherVars

\* get_real_campaigns
GetRealCampaigns ==
    /\ tpc = "real"
    /\ real_campaigns' = MapFound(SelectSeq(all_campaigns, IsRealCampaignReal))
    /\ tpc' = "loop"
    /\ UNCHANGED <<all_campaigns, analyzed_campaigns, sariel_found, selection_report,
                   campaign_index>>
    /\ UNCHANGED otherVars

\* one pass of the loop of main over real_campaigns[:20]
AnalyzeRealCampaign ==
    /\ tpc = "loop"
    /\ campaign_index < Len(Slice(real_campaigns, RealWindow))
    /\ LET campaign == real_campaigns[campaign_index + 1]
       IN  /\ sariel_found' = (sariel_found \/ IsSarielReal(campaign.name))
           /\ \E order \in Orderings(StoriesExpected(campaign.data.game_state)) :
                  LET an == analyze_campaign_stories(campaign.data, order)
                  IN  analyzed_campaigns' =
                          IF MeaningfulReal(an)
                          THEN Append(analyzed_campaigns, RealEntry(campaign, an))
                          ELSE analyzed_campaigns
    /\ campaign_index' = campaign_index + 1
    /\ UNCHANGED <<all_campaigns, real_campaigns, selection_report, tpc>>
    /\ UNCHANGED otherVars

\* the list is sorted in place, the top 3 are taken and the report is built
WriteRealReport ==
    /\ tpc = "loop"
    /\ campaign_index >= Len(Slice(real_campaigns, RealWindow))
    /\ analyzed_campaigns' = SortByRate(analyzed_campaigns)
    /\ selection_report' =
           [real_campaigns_found |-> Len(real_campaigns),
            real_campaigns_analyzed |-> Len(analyzed_campaigns),
            sariel_found |-> sariel_found,
            top_real_campaigns |-> Slice(SortByRate(analyzed_campaigns), TopRealCampaigns)]
    /\ tpc' = "finished"
    /\ UNCHANGED <<all_campaigns, real_campaigns, sariel_found, campaign_index>>
    /\ UNCHANGED otherVars

SelectionNext ==
    \/ FilterRealCampaigns
    \/ AnalyzeSarielV2
    \/ AnalyzeOtherCampaign
    \/ WriteSelectionReport
    \/ GetRealCampaigns
    \/ AnalyzeRealCampaign
    \/ WriteRealReport

SpecSelection == SelectionInit /\ [][SelectionNext]_vars

(***************************************************************************)
(* CampaignAnalyzer on campaigns of one turn.                              *)
(***************************************************************************)
SingleTurnInit ==
    /\ campaign_data \in SingleTurnCampaigns
    /\ metrics = FreshMetrics
    /\ desync_patterns = <<>>
    /\ reports = <<>>
    /\ apc = "idle"
    /\ session_index = 0
    /\ turn_index = 0
    /\ MatcherIdle
    /\ ExtractIdle
    /\ ClassifyIdle
    /\ VoaIdle
    /\ SelectorIdle
    /\ SelectionIdle
    /\ ExportIdle
    /\ GeminiIdle

\* analyze_campaign is called once
StartSingleAnalyze == reports = <<>> /\ StartAnalyze

SingleTurnNext ==
    \/ StartSingleAnalyze
    \/ AnalyzeTurn
    \/ EndSession
    \/ FinishAnalyze

SpecSingleTurn == SingleTurnInit /\ [][SingleTurnNext]_vars

(***************************************************************************)
(* CampaignAnalyzer: one campaign is analysed, then its snapshot exported. *)
(***************************************************************************)
ExportInit ==
    /\ campaign_data \in ExportCampaigns
    /\ metrics = FreshMetrics
    /\ desync_patterns = <<>>
    /\ reports = <<>>
    /\ apc = "idle"
    /\ session_index = 0
    /\ turn_index = 0
    /\ MatcherIdle
    /\ ExtractIdle
    /\ ClassifyIdle
    /\ VoaIdle
    /\ SelectorIdle
    /\ SelectionIdle
    /\ ExportIdle
    /\ GeminiIdle

\* export_campaign_snapshot is called with the campaign that was analysed
ExportSnapshot ==
    /\ apc = "idle"
    /\ reports # <<>>
    /\ snapshot = None
    /\ snapshot' = export_campaign_snapshot(
                       [metrics |-> metrics, desync_patterns |-> desync_patterns],
                       campaign_data)
    /\ UNCHANGED <<matcherVars, extractVars, classifyVars, voaVars, analyzerVars,
                   selectorVars, selectionVars, geminiVars>>

ExportNext ==
    \/ StartSingleAnalyze
    \/ AnalyzeTurn
    \/ EndSession
    \/ FinishAnalyze
    \/ ExportSnapshot

SpecExport == ExportInit /\ [][ExportNext]_vars

(***************************************************************************)
(* MockGeminiAPI.batch_generate, pass by pass.                             *)
(***************************************************************************)
GeminiInit ==
    /\ prompts \in PromptLists
    /\ batch_results = <<>>
    /\ \E prior \in PriorUse : call_count = prior[1] /\ total_tokens = prior[2]
    /\ prompt_index = 1
    /\ gpc = "loop"
    /\ MatcherIdle
    /\ ExtractIdle
    /\ ClassifyIdle
    /\ VoaIdle
    /\ AnalyzerIdle
    /\ SelectorIdle
    /\ SelectionIdle
    /\ ExportIdle

\* one pass of the loop: the generation fails, raises or succeeds
BatchGeneratePass ==
    /\ gpc = "loop"
    /\ prompt_index <= Len(prompts)
    /\ \E failed \in BOOLEAN, delay_ms \in Delays :
          LET pass == BatchPass([call_count |-> call_count, total_tokens |-> total_tokens],
                                prompts[prompt_index][1], prompts[prompt_index][2],
                                failed, delay_ms)
          IN  /\ batch_results' = Append(batch_results, pass.response)
              /\ call_count' = pass.call_count
              /\ total_tokens' = pass.total_tokens
    /\ prompt_index' = prompt_index + 1
    /\ UNCHANGED <<prompts, gpc>>
    /\ UNCHANGED <<matcherVars, extractVars, classifyVars, voaVars, analyzerVars,
                   selectorVars, selectionVars, exportVars>>

\* the loop is over: results is returned
BatchGenerateReturn ==
    /\ gpc = "loop"
    /\ prompt_index > Len(prompts)
    /\ gpc' = "returned"
    /\ UNCHANGED <<prompts, batch_results, call_count, total_tokens, prompt_index>>
    /\ UNCHANGED <<matcherVars, extractVars, classifyVars, voaVars, analyzerVars,
                   selectorVars, selectionVars, exportVars>>

GeminiNext == BatchGeneratePass \/ BatchGenerateReturn

SpecGemini == GeminiInit /\ [][GeminiNext]_vars

AnalysisInit == VoaInit \/ AnalyzerInit \/ SelectorInit \/ StoriesInit

AnalysisNext ==
    \/ TestCampaignScenario
    \/ StartAnalyze
    \/ AnalyzeTurn
    \/ EndSession
    \/ FinishAnalyze
    \/ NewAnalyzer
    \/ SelectorAnalyzeEntry
    \/ SelectorFinish
    \/ StoriesAnalyzeEntry
    \/ StoriesFinish

SpecAnalysis == AnalysisInit /\ [][AnalysisNext]_vars

(***************************************************************************)
(* Properties of the matcher.                                              *)
(***************************************************************************)
SwapChar(c) == IF LowerChar(c) # c THEN LowerChar(c) ELSE UpperChar(c)

\* the strings obtained from s by changing the case of some of its letters:
\* every choice of positions for a short string, the whole-string changes
\* for a long one
CaseChanges(s) ==
    IF Len(s) <= MaxNameLen
    THEN {[i \in 1..Len(s) |-> IF i \in P THEN SwapChar(s[i]) ELSE s[i]] :
             P \in SUBSET (1..Len(s))}
    ELSE {s, Lower(s), Upper(s), [i \in 1..Len(s) |-> SwapChar(s[i])]}

Tokens(name) == Range(Split(name))

FullFormOccurs == Contains(Lower(entity), Lower(text))

\* C9: the matcher is case-insensitive: changing the letter case of the text
\* or of the name does not change the result, and a name that occurs in the
\* text as a substring up to case is reported as mentioned.
C9_CaseInsensitive ==
    mpc = "done" =>
        /\ \A t2 \in CaseChanges(text) : validate_entity(t2, entity) = is_present
        /\ \A e2 \in CaseChanges(entity) : validate_entity(text, e2) = is_present
        /\ FullFormOccurs => is_present

\* the name occurs in the text only in another letter case, and is found
C9_Witness ==
    /\ mpc = "done"
    /\ entity # <<>>
    /\ ~Contains(entity, text)
    /\ FullFormOccurs
    /\ is_present

\* C10 as stated: for a name of several tokens whose full form is not in the
\* text, mentioned iff some token longer than 3 characters occurs in the
\* text; a one-token name has no fallback.
C10_TokenLongerThan3 ==
    (mpc = "done" /\ ~FullFormOccurs) =>
        /\ Len(Split(entity)) > 1 =>
               (is_present <=>
                    \E tok \in Tokens(entity) :
                        Len(tok) > 3 /\ Contains(Lower(tok), Lower(text)))
        /\ Len(Split(entity)) <= 1 => ~is_present

\* C10 amended: for a name of several tokens whose full form is not in the
\* text, mentioned iff some token, of any length, occurs in the text
\* (case-insensitively); a one-token name has no fallback.
C10_AnyToken ==
    (mpc = "done" /\ ~FullFormOccurs) =>
        /\ Len(Split(entity)) > 1 =>
               (is_present <=>
                    \E tok \in Tokens(entity) : Contains(Lower(tok), Lower(text)))
        /\ Len(Split(entity)) <= 1 => ~is_present

\* "Sir Garrett" is found in a text that holds only the 3-letter token "sir"
C10_Witness ==
    /\ mpc = "done"
    /\ Len(Split(entity)) > 1
    /\ ~FullFormOccurs
    /\ is_present
    /\ \A tok \in Tokens(entity) :
           Contains(Lower(tok), Lower(text)) => Len(tok) <= 3
    /\ \E tok \in Tokens(entity) : Len(tok) = 3

(***************************************************************************)
(* Properties of the extractors.                                           *)
(***************************************************************************)
PcData == Get(game_state, "player_character_data", EmptyDict)

NpcData == Get(game_state, "npc_data", <<>>)

CombatState == Get(game_state, "combat_state", EmptyDict)

InCombat == "in_combat" \in DOMAIN CombatState /\ CombatState["in_combat"]

ParticipantNames ==
    IF "participants" \in DOMAIN CombatState
    THEN {CombatState["participants"][i].str : i \in 1..Len(CombatState["participants"])}
    ELSE {}

PcNames == IF "name" \in DOMAIN PcData THEN {PcData["name"]} ELSE {}

LocationNames ==
    LET wd == Get(game_state, "world_data", EmptyDict)
    IN  IF "current_location" \in DOMAIN wd THEN {wd["current_location"]} ELSE {}

Flag(info, k, default) == IF k \in DOMAIN info THEN info[k] ELSE default

Expected == Range(expected_entities)

MarkedHidden(d) ==
    \/ Flag(d, "hidden", FALSE)
    \/ Flag(d, "conditions", {}) \cap {"hidden", "invisible"} # {}

MarkedUnconscious(d) == ~Flag(d, "conscious", TRUE)

\* C7: outside combat a player character with a non-empty name is required
\* unless it is marked hidden or unconscious; a player character or NPC
\* marked hidden or invisible is not required (Whisper and Zara of the
\* hidden_characters scenario), the visible NPCs of the same state are.
C7_HiddenNotExpected ==
    (xpc = "done" /\ ~InCombat) =>
        /\ (HasName(PcData) /\ ~MarkedHidden(PcData) /\ ~MarkedUnconscious(PcData))
               => PcData["name"] \in Expected
        /\ (HasName(PcData) /\ (MarkedHidden(PcData) \/ MarkedUnconscious(PcData)))
               => \/ PcData["name"] \notin Expected
                  \/ \E i \in 1..Len(NpcData) : NpcData[i].key = PcData["name"]
        /\ \A i \in 1..Len(NpcData) :
               MarkedHidden(NpcData[i].info) => NpcData[i].key \notin Expected
        /\ game_state = HiddenCharactersState =>
               /\ Expected = HiddenCharactersExpected
               /\ Expected \cap HiddenCharactersHidden = {}

\* the extractor's answer on the hidden_characters scenario
C7_ScenarioOutcome ==
    /\ xpc = "done"
    /\ game_state = HiddenCharactersState
    /\ expected_entities = <<Whisper, LordBlackwood, GuardCaptain, Zara, Felix>>

\* the names a game state requires without its combat participants
WithoutParticipants ==
    {n \in PcNames : n # <<>>}
    \cup {NpcData[i].key :
             i \in {j \in 1..Len(NpcData) :
                       /\ Flag(NpcData[j].info, "present", TRUE)
                       /\ Flag(NpcData[j].info, "conscious", TRUE)}}

\* C8 as stated: in combat every participant is required, whatever its flags
\* and also when it matches no record; outside combat the participants add
\* nothing; an unconscious NPC that is no participant stays excluded during
\* combat.
C8_ParticipantsForced ==
    xpc = "done" =>
        /\ InCombat => ParticipantNames \subseteq Expected
        /\ ~InCombat => Expected = WithoutParticipants
        /\ InCombat =>
               \A i \in 1..Len(NpcData) :
                   (~Flag(NpcData[i].info, "conscious", TRUE)
                        /\ NpcData[i].key \notin ParticipantNames)
                       => NpcData[i].key \notin Expected

\* C8 amended: as stated, but an unconscious NPC that is no participant stays
\* excluded during combat unless the player character bears its name.
C8_ParticipantsForcedButPcName ==
    xpc = "done" =>
        /\ InCombat => ParticipantNames \subseteq Expected
        /\ ~InCombat => Expected = WithoutParticipants
        /\ InCombat =>
               \A i \in 1..Len(NpcData) :
                   (~Flag(NpcData[i].info, "conscious", TRUE)
                        /\ NpcData[i].key \notin ParticipantNames
                        /\ NpcData[i].key \notin PcNames)
                       => NpcData[i].key \notin Expected

\* in combat a participant that matches no record and an unconscious
\* participant are required, an unconscious NPC that is no participant is not
C8_Witness ==
    /\ xpc = "done"
    /\ InCombat
    /\ \E n \in ParticipantNames :
           /\ n \notin PcNames
           /\ \A i \in 1..Len(NpcData) : NpcData[i].key # n
           /\ n \in Expected
    /\ \E i \in 1..Len(NpcData) :
           /\ ~Flag(NpcData[i].info, "conscious", TRUE)
           /\ NpcData[i].key \in ParticipantNames
           /\ NpcData[i].key \in Expected
    /\ \E i \in 1..Len(NpcData) :
           /\ ~Flag(NpcData[i].info, "conscious", TRUE)
           /\ NpcData[i].key \notin ParticipantNames
           /\ NpcData[i].key \notin Expected

(***************************************************************************)
(* Properties of the classifier.                                           *)
(***************************************************************************)
Missing == validation_result["entities_missing"]

SplitParty ==
    \E i, j \in 1..Len(NpcData) :
        /\ "location" \in DOMAIN NpcData[i].info
        /\ "location" \in DOMAIN NpcData[j].info
        /\ NpcData[i].info["location"] # NpcData[j].info["location"]

\* the record of a missing entity, if it has one, says conscious == false
SomeMissingUnconscious ==
    \E k \in 1..Len(Missing) : \E i \in 1..Len(NpcData) :
        NpcData[i].key = Missing[k] /\ ~Flag(NpcData[i].info, "conscious", TRUE)

SomeMissingHidden ==
    \E k \in 1..Len(Missing) : \E i \in 1..Len(NpcData) :
        NpcData[i].key = Missing[k] /\ Flag(NpcData[i].info, "hidden", FALSE)

AmbiguityFlagged ==
    /\ "metadata" \in DOMAIN validation_result
    /\ "ambiguous" \in DOMAIN validation_result["metadata"]
    /\ validation_result["metadata"]["ambiguous"] # <<>>

\* C3: in combat with at least one missing entity the category is
\* combat_entity_missing, whatever the other flags of the state are.
C3_CombatFirst ==
    (cpc = "done" /\ InCombat /\ Missing # <<>>) =>
        pattern_type = "combat_entity_missing"

\* in combat, with NPCs at two locations, a missing entity that is hidden and
\* unconscious, and ambiguity flagged
C3_Witness ==
    /\ cpc = "done"
    /\ InCombat
    /\ SplitParty
    /\ SomeMissingUnconscious
    /\ SomeMissingHidden
    /\ AmbiguityFlagged
    /\ pattern_type = "combat_entity_missing"

\* C5: the category is the first of combat_entity_missing,
\* split_party_confusion, unconscious_omission, hidden_character,
\* presence_ambiguity, general_entity_omission whose condition holds; any
\* missing entity that is unconscious gives unconscious_omission (no combat,
\* no split party) even when an earlier missing entity is hidden.
C5_FirstCategoryWins ==
    (cpc = "done" /\ Missing # <<>>) =>
        pattern_type =
            IF InCombat THEN "combat_entity_missing"
            ELSE IF SplitParty THEN "split_party_confusion"
            ELSE IF SomeMissingUnconscious THEN "unconscious_omission"
            ELSE IF SomeMissingHidden THEN "hidden_character"
            ELSE IF AmbiguityFlagged THEN "presence_ambiguity"
            ELSE "general_entity_omission"

\* the classifier's answer for missing = [Zara, Finn], Zara hidden and Finn
\* unconscious, no combat, no split party
C5_HiddenBeforeUnconscious ==
    /\ cpc = "done"
    /\ ~InCombat
    /\ ~SplitParty
    /\ Missing = <<Zara, Finn>>
    /\ Flag(NpcGet(NpcData, Zara), "hidden", FALSE)
    /\ Flag(NpcGet(NpcData, Zara), "conscious", TRUE)
    /\ ~Flag(NpcGet(NpcData, Finn), "conscious", TRUE)
    /\ pattern_type = "hidden_character"

(***************************************************************************)
(* Properties of the analyses.                                             *)
(***************************************************************************)
\* found and missing are disjoint and together are exactly expected
Partition(found, missing, expected) ==
    /\ Range(found) \cap Range(missing) = {}
    /\ Range(found) \cup Range(missing) = expected

\* C1: every validation of a narrative against a set of expected entities
\* gives found entities and missing entities that are disjoint and together
\* are exactly the expected entities, so the found count plus the number of
\* missing entities is the expected count: in every result of
\* test_campaign_scenario and in every pattern the analyzer records.
C1_FoundMissingPartition ==
    /\ \A i \in 1..Len(results) :
           /\ Partition(results[i].details.found_entities, results[i].entities_missing,
                        extract_entities_from_state(game_state).active_entities)
           /\ results[i].entities_found = Len(results[i].details.found_entities)
           /\ results[i].entities_found + Len(results[i].entities_missing)
                 = results[i].entities_expected
    /\ \A i \in 1..Len(desync_patterns) :
           /\ Partition(desync_patterns[i].found, desync_patterns[i].missing,
                        Range(desync_patterns[i].expected))
           /\ Len(desync_patterns[i].found) + Len(desync_patterns[i].missing)
                 = Len(desync_patterns[i].expected)

\* a result of test_campaign_scenario with entities found and entities missing
C1_Witness ==
    /\ vpc = "ready"
    /\ \E i \in 1..Len(results) :
           /\ results[i].entities_found > 0
           /\ results[i].entities_missing # <<>>
           /\ results[i].entities_expected > 2

\* a rate n/d, kept as <<n, d>>, lies in [0, 1]
InUnitInterval(rate) == 0 <= rate[1] /\ rate[1] <= rate[2] /\ rate[2] > 0

\* C2: in every report of a campaign analysis, after any sequence of
\* sessions and turns, 0 <= desync_rate <= 1 and desync_turns <= total_turns,
\* and desync_rate is 0 whenever total_turns is 0: for the reports of
\* CampaignAnalyzer.analyze_campaign, for analyze_campaign of the selector
\* and for analyze_campaign_stories.
C2_RateInUnitInterval ==
    /\ \A i \in 1..Len(reports) :
           /\ InUnitInterval(reports[i].summary.desync_rate)
           /\ reports[i].summary.desync_turns <= reports[i].summary.total_turns
           /\ reports[i].summary.total_turns = 0 =>
                  reports[i].summary.desync_rate[1] = 0
    /\ spc \in {"done", "returned"} =>
           /\ InUnitInterval(analysis.desync_rate)
           /\ Len(analysis.desync_incidents) <= analysis.total_turns
           /\ analysis.total_turns = 0 => analysis.desync_rate[1] = 0

\* a report of the analyzer whose rate is strictly between 0 and 1
C2_Witness ==
    \E i \in 1..Len(reports) :
        /\ reports[i].summary.desync_turns > 0
        /\ reports[i].summary.desync_turns < reports[i].summary.total_turns
        /\ reports[i].summary.desync_rate = <<1, 2>>

\* C4: analysing the same campaign data twice, with no change to the data
\* in between, yields identical reports, for two successive
\* analyze_campaign calls on one CampaignAnalyzer as well as for calls on
\* two analyzers: all the reports returned for campaign_data are equal.
C4_SameReportTwice ==
    \A i, j \in 1..Len(reports) : reports[i] = reports[j]

\* C11: the matcher returns false for an empty entity name whatever the text
\* is, and false for an empty narrative whatever the entity name is.
C11_EmptyNeverMatches ==
    (mpc = "done" /\ (entity = <<>> \/ text = <<>>)) => ~is_present

CurrentTurn == SessionTurns(session_index)[turn_index]

\* the loop of _analyze_session is about to process a turn
AtAnyTurn ==
    /\ apc = "sessions"
    /\ session_index <= Len(Sessions)
    /\ turn_index <= Len(SessionTurns(session_index))

\* the turn the loop of _analyze_session is about to process, its game
\* state being one the extractor accepts
AtTurn == AtAnyTurn /\ ~ExtractRaises(Get(CurrentTurn, "game_state", EmptyDict))

\* the AI entry the loop of a selector is about to count
AtAiEntry(entries) ==
    /\ entry_index < Len(entries)
    /\ ~IsStr(entries[entry_index + 1])
    /\ Get(entries[entry_index + 1].dict, "actor", "none") = "ai"

EntryText(entries) == Get(entries[entry_index + 1].dict, "text", <<>>)

AtSelectorEntry ==
    /\ spc = "0.4"
    /\ campaign_doc.exists
    /\ analysis.total_turns < limit
    /\ AtAiEntry(story_entries)

AtStoriesEntry == spc = "real" /\ AtAiEntry(LastEntries(story_entries))

\* C12: a turn whose narrative is shorter than 50 characters never produces
\* a desync, whatever the expected entities are: no pattern or incident is
\* recorded for it and desync_turns is not incremented, while the turn is
\* still counted in total_turns; in the analyzer and in both selectors.
C12_ShortNarrativeNoDesync ==
    [][/\ (AtTurn /\ Len(Get(CurrentTurn, "narrative", <<>>)) < 50) =>
              /\ metrics'.total_turns = metrics.total_turns + 1
              /\ metrics'.desync_turns = metrics.desync_turns
              /\ metrics'.pattern_counts = metrics.pattern_counts
              /\ desync_patterns' = desync_patterns
       /\ (AtSelectorEntry /\ Len(EntryText(story_entries)) < 50) =>
              /\ analysis'.total_turns = analysis.total_turns + 1
              /\ analysis'.desync_incidents = analysis.desync_incidents
       /\ (AtStoriesEntry /\ Len(EntryText(LastEntries(story_entries))) < 50) =>
              /\ analysis'.total_turns = analysis.total_turns + 1
              /\ analysis'.desync_incidents = analysis.desync_incidents]_vars

\* the analyzer has processed a short turn whose narrative does not name
\* Cassian, who is expected
C12_Witness ==
    /\ apc = "sessions"
    /\ session_index = 1
    /\ turn_index = 2
    /\ SessionTurns(1)[1] = ShortTurn
    /\ Len(ShortTurn.narrative) < 50
    /\ ~Contains(Lower(Cassian), Lower(ShortTurn.narrative))
    /\ Cassian \in metrics.entities_tracked
    /\ metrics.total_turns = 1
    /\ metrics.desync_turns = 0
    /\ desync_patterns = <<>>

\* the expected entities of the turn the analyzer is about to process, and
\* those of them its validator does not find in the turn's narrative
TurnNarrative == Get(CurrentTurn, "narrative", <<>>)

TurnExpected == _extract_expected_entities(Get(CurrentTurn, "game_state", EmptyDict))

TurnUnmatched == {e \in Range(TurnExpected) : ~isMentioned(TurnNarrative, e)}

\* the step of the analyzer records the current turn as a desync whose
\* missing entities are TurnUnmatched, or records nothing when there are none
RecordsUnmatched ==
    IF TurnUnmatched = {}
    THEN /\ desync_patterns' = desync_patterns
         /\ metrics'.desync_turns = metrics.desync_turns
    ELSE /\ Len(desync_patterns') = Len(desync_patterns) + 1
         /\ SubSeq(desync_patterns', 1, Len(desync_patterns)) = desync_patterns
         /\ Range(desync_patterns'[Len(desync_patterns')].missing) = TurnUnmatched
         /\ metrics'.desync_turns = metrics.desync_turns + 1

\* every result of validate_narrative: the missing entities are the active
\* entities validate_entity does not find, and a desync is detected iff there
\* is one; scenario A gives exactly Cassian
ResultsMissingUnmatched ==
    \A i \in 1..Len(results) :
        /\ Range(results[i].entities_missing) =
              {e \in extract_entities_from_state(game_state).active_entities :
                  ~validate_entity(narrative, e)}
        /\ results[i].desync_detected = (results[i].entities_missing # <<>>)
        /\ (game_state = ScenarioAState /\ narrative = ShortNarrative) =>
               /\ results[i].entities_missing = <<Cassian>>
               /\ results[i].desync_detected

NoTurns == \A s \in 1..Len(Sessions) : SessionTurns(s) = <<>>

\* C15: analysing a campaign with no sessions, or whose sessions have no
\* turns, returns a report with total_turns = 0, desync_turns = 0,
\* desync_rate = 0, an empty pattern breakdown, an empty desync_patterns
\* list and an empty entity list.
C15_EmptyCampaignReport ==
    (apc # "off" /\ NoTurns) =>
        \A i \in 1..Len(reports) :
            /\ reports[i].summary.total_sessions = Len(Sessions)
            /\ reports[i].summary.total_turns = 0
            /\ reports[i].summary.desync_turns = 0
            /\ reports[i].summary.desync_rate = <<0, 1>>
            /\ reports[i].summary.unique_entities = 0
            /\ reports[i].pattern_breakdown = EmptyDict
            /\ reports[i].desync_patterns = <<>>
            /\ reports[i].entity_list = {}

\* the report of a campaign with one session and zero turns
C15_Witness ==
    /\ apc = "idle"
    /\ Len(Sessions) = 1
    /\ SessionTurns(1) = <<>>
    /\ Len(reports) = 1
    /\ reports[1].summary.total_turns = 0

\* the sum of the values of a dict of counters
RECURSIVE SumOver(_, _)
SumOver(counts, keys) ==
    IF keys = {}
    THEN 0
    ELSE LET k == CHOOSE x \in keys : TRUE
         IN  counts[k] + SumOver(counts, keys \ {k})

SumCounts(counts) == SumOver(counts, DOMAIN counts)

\* the turns of the sessions before session s
RECURSIVE TurnsBefore(_)
TurnsBefore(s) ==
    IF s <= 1 THEN 0 ELSE Len(SessionTurns(s - 1)) + TurnsBefore(s - 1)

\* the turns the running call of analyze_campaign has processed
Processed ==
    IF session_index > Len(Sessions)
    THEN TurnsBefore(Len(Sessions) + 1)
    ELSE TurnsBefore(session_index) + turn_index - 1

\* the missing entities the validator reports for the current turn (none
\* when nothing is expected: the validator is not called)
TurnMissing ==
    IF TurnExpected = <<>>
    THEN <<>>
    ELSE validate(TurnNarrative, TurnExpected,
                  LocationArg(Get(CurrentTurn, "game_state", EmptyDict)))["entities_missing"]

CountersAgree ==
    /\ metrics.desync_turns = Len(desync_patterns)
    /\ metrics.desync_turns = SumCounts(metrics.pattern_counts)
    /\ \A i \in 1..Len(desync_patterns) :
           /\ desync_patterns[i].missing # <<>>
           /\ Range(desync_patterns[i].missing) \subseteq Range(desync_patterns[i].expected)
    /\ (apc = "sessions" /\ reports = <<>>) => metrics.total_turns = Processed
    /\ reports # <<>> =>
           /\ reports[1].summary.total_turns = TurnsBefore(Len(Sessions) + 1)
           /\ reports[1].summary.desync_turns = Len(reports[1].desync_patterns)
           /\ reports[1].summary.desync_turns = SumCounts(reports[1].pattern_breakdown)

\* C16: after any sequence of turns processed by a fresh analyzer,
\* total_turns is the number of turns processed (turns skipped for an empty
\* expected set included); exactly one DesyncPattern is recorded for each
\* turn with at least one missing entity and none for any other turn;
\* desync_turns is the number of recorded patterns and the sum of the
\* per-category counts; every recorded pattern has a non-empty missing list
\* that is a subset of its expected list.
C16_TurnAccounting ==
    /\ []CountersAgree
    /\ [][AtTurn =>
             /\ metrics'.total_turns = metrics.total_turns + 1
             /\ IF TurnMissing # <<>>
                THEN /\ Len(desync_patterns') = Len(desync_patterns) + 1
                     /\ SubSeq(desync_patterns', 1, Len(desync_patterns)) = desync_patterns
                     /\ desync_patterns'[Len(desync_patterns')].missing = TurnMissing
                ELSE desync_patterns' = desync_patterns]_vars

\* the first report of a campaign of two turns, one of them without a game
\* state (nothing expected) and one a desync
C16_Witness ==
    /\ Len(reports) = 1
    /\ \E s \in 1..Len(Sessions) : \E t \in 1..Len(SessionTurns(s)) :
           SessionTurns(s)[t] = BareTurn
    /\ _extract_expected_entities(Get(BareTurn, "game_state", EmptyDict)) = <<>>
    /\ reports[1].summary.total_turns = 2
    /\ reports[1].summary.desync_turns = 1
    /\ Len(reports[1].desync_patterns) = 1

\* <<session_number, turn_number>> of the turns of the campaign from session
\* s on, in the order given
RECURSIVE TurnKeysFrom(_)
TurnKeysFrom(s) ==
    IF s > Len(Sessions)
    THEN <<>>
    ELSE [t \in 1..Len(SessionTurns(s)) |->
             <<Get(Sessions[s], "session_number", 0),
               Get(SessionTurns(s)[t], "turn_number", 0)>>]
         \o TurnKeysFrom(s + 1)

\* a is b with some elements left out
RECURSIVE IsSubsequence(_, _)
IsSubsequence(a, b) ==
    IF a = <<>> THEN TRUE
    ELSE IF b = <<>> THEN FALSE
    ELSE IF Head(a) = Head(b) THEN IsSubsequence(Tail(a), Tail(b))
    ELSE IsSubsequence(a, Tail(b))

IsPrefix(a, b) == Len(a) <= Len(b) /\ SubSeq(b, 1, Len(a)) = a

PatternKeys(patterns) == [i \in 1..Len(patterns) |-> <<patterns[i].session, patterns[i].turn>>]

\* C17: the desync_patterns sequence of a report is in processing order,
\* sessions in the order given and within a session turns in the order
\* given: the patterns of the first report name turns of the campaign in
\* the campaign's order, the loop goes through the turns in that order, and
\* an analyzer's patterns are only ever appended, never reordered or removed.
C17_PatternsInProcessingOrder ==
    /\ [](reports # <<>> =>
             IsSubsequence(PatternKeys(reports[1].desync_patterns), TurnKeysFrom(1)))
    /\ [][/\ \/ IsPrefix(desync_patterns, desync_patterns')
             \/ (apc = "idle" /\ metrics' = FreshMetrics /\ desync_patterns' = <<>>)
          /\ AtTurn =>
                /\ session_index' = session_index
                /\ turn_index' = turn_index + 1
                /\ Len(desync_patterns') <= Len(desync_patterns) + 1
                /\ Len(desync_patterns') = Len(desync_patterns) + 1 =>
                       /\ desync_patterns'[Len(desync_patterns')].session =
                             Get(Sessions[session_index], "session_number", 0)
                       /\ desync_patterns'[Len(desync_patterns')].turn =
                             Get(CurrentTurn, "turn_number", 0)
          /\ (apc = "sessions" /\ apc' = "sessions" /\ ~AtTurn) =>
                session_index' = session_index + 1 /\ turn_index' = 1]_vars

\* the first report of a campaign whose turn 2 comes before its turn 1, both
\* desyncs: the patterns are in the order of the campaign
C17_Witness ==
    /\ Len(reports) = 1
    /\ Len(reports[1].desync_patterns) = 2
    /\ reports[1].desync_patterns[1].turn = 2
    /\ reports[1].desync_patterns[2].turn = 1
    /\ TurnKeysFrom(1) = <<<<1, 2>>, <<1, 1>>>>

\* the expected entities of all the turns of the campaign
AllExpected ==
    UNION {UNION {Range(_extract_expected_entities(
                            Get(SessionTurns(s)[t], "game_state", EmptyDict))) :
                     t \in 1..Len(SessionTurns(s))} :
              s \in 1..Len(Sessions)}

\* C18: the entity list of a report from a fresh analyzer is exactly the
\* union of the expected entity sets of all the turns processed, whether or
\* not a turn had a desync; the tracked set only grows as turns are
\* processed, each turn adding its expected entities, and unique_entities
\* is its size.
C18_EntityListIsUnion ==
    /\ [](reports # <<>> =>
             /\ reports[1].entity_list = AllExpected
             /\ reports[1].summary.unique_entities = Cardinality(AllExpected))
    /\ [][/\ \/ metrics.entities_tracked \subseteq metrics'.entities_tracked
             \/ (apc = "idle" /\ metrics' = FreshMetrics)
          /\ AtTurn =>
                metrics'.entities_tracked =
                    metrics.entities_tracked \cup Range(TurnExpected)]_vars

\* the first report of a campaign of a turn without a desync (Sariel and
\* Valerius, both named) and a turn with one (Sariel and Zara)
C18_Witness ==
    /\ Len(reports) = 1
    /\ reports[1].summary.total_turns = 2
    /\ reports[1].summary.desync_turns = 1
    /\ reports[1].entity_list = {Sariel, Valerius, Zara}
    /\ reports[1].summary.unique_entities = 3


\* C19: campaign analysis never fails on a malformed turn: for a turn whose
\* game_state is null or has malformed sub-maps (an NPC record or a
\* combat_state that is not a mapping) no exception propagates, the turn is
\* counted in total_turns and treated as having an empty expected set with
\* no pattern recorded, and all the following turns are still analyzed.
C19_MalformedTurnTolerated ==
    /\ apc # "raised"
    /\ (apc = "idle" /\ reports # <<>>) =>
           reports[1].summary.total_turns = TurnsBefore(Len(Sessions) + 1)

\* the game state and the current location the selector reads
SelectorState == Get(campaign_doc.data, "game_state", EmptyDict)

CurrentLocation == Get(Get(SelectorState, "world_data", EmptyDict), "current_location", <<>>)

\* the location is not empty, the narrative is longer than 100 characters
\* and no word of the location longer than 3 characters occurs in it
LocationUnmentioned(narrative_) ==
    /\ CurrentLocation # <<>>
    /\ Len(narrative_) > 100
    /\ \A k \in 1..Len(Split(CurrentLocation)) :
           Len(Split(CurrentLocation)[k]) > 3 =>
               ~Contains(Lower(Split(CurrentLocation)[k]), Lower(narrative_))

\* the issues of the given type recorded for story entry k
IssuesAt(k, type) ==
    UNION {{inc.issues[j] : j \in {j \in 1..Len(inc.issues) : inc.issues[j].type = type}} :
              inc \in {inc \in Range(analysis.desync_incidents) : inc.turn = k}}

\* the names the selector may report missing
SelectorNames ==
    SelectorExpected(SelectorState)
    \cup {p.dict["name"] :
             p \in {p \in Range(Get(Get(SelectorState, "combat_state", EmptyDict),
                                    "participants", <<>>)) :
                       ~IsStr(p) /\ "name" \in DOMAIN p.dict}}

\* C20: a location mismatch is flagged for a narrative exactly when the
\* current location is non-empty, the narrative is longer than 100
\* characters and none of the words of the location name longer than 3
\* characters occurs in the narrative, case-insensitively; it is its own
\* diagnostic, and the missing entities are names of expected entities only,
\* never the location.
C20_LocationMismatch ==
    spc \in {"0.4", "done"} =>
        \A k \in 0..entry_index - 1 :
            LET entry == story_entries[k + 1]
                text_ == Get(entry.dict, "text", <<>>)
            IN  (~IsStr(entry) /\ Get(entry.dict, "actor", "none") = "ai"
                 /\ Len(text_) >= 50) =>
                    /\ IssuesAt(k, "location_mismatch") # {} <=> LocationUnmentioned(text_)
                    /\ \A issue \in IssuesAt(k, "location_mismatch") :
                           /\ issue.expected_location = CurrentLocation
                           /\ "entity" \notin DOMAIN issue
                    /\ \A issue \in IssuesAt(k, "missing_entity")
                                    \cup IssuesAt(k, "missing_combat_participant") :
                           /\ issue.entity \in SelectorNames
                           /\ CurrentLocation \notin SelectorNames =>
                                  issue.entity # CurrentLocation

\* a narrative of more than 100 characters that names Sariel, in "The Inn":
\* the location mismatch is the only issue of the entry
C20_Witness ==
    /\ spc = "done"
    /\ CurrentLocation = TheInn
    /\ Len(analysis.desync_incidents) = 1
    /\ analysis.desync_incidents[1].issues =
          <<[type |-> "location_mismatch", expected_location |-> TheInn,
             narrative_length |-> Len(LongNarrative)]>>
    /\ Contains(<<"t", "h", "e">>, Lower(LongNarrative))

(***************************************************************************)
(* C21: the current location and the entities that must be mentioned.      *)
(***************************************************************************)
\* C21 as stated: for every game state the entities that must be mentioned
\* (the list of _extract_expected_entities, the active_entities of
\* extract_entities_from_state) never contain the current location name,
\* which is placed in the locations subset only.
C21_LocationNotActive ==
    xpc = "done" =>
        /\ LocationNames \subseteq entities.locations
        /\ LocationNames \cap Expected = {}
        /\ LocationNames \cap entities.active_entities = {}

(***************************************************************************)
(* Properties of the selections.                                           *)
(***************************************************************************)
\* the list the selection presents, once the report is written
Presented ==
    IF tpc = "done"
    THEN selection_report.top_campaigns
    ELSE selection_report.top_real_campaigns

Reported == tpc \in {"done", "finished"}

TopN == IF tpc = "done" THEN TopCampaigns ELSE TopRealCampaigns

NonIncreasing(list) ==
    \A i, j \in 1..Len(list) :
        i < j => ~RateGreater(list[j].desync_rate, list[i].desync_rate)

\* the campaign passed the selector's minimum turn count and minimum rate
PassedFilter(c) ==
    /\ RateGreater(c.desync_rate, MinRate)
    /\ IF tpc = "done" THEN c.total_turns >= MinTurns ELSE c.total_turns > MinTurns

\* the analysis the loop "always include Sariel v2" appended
IsRequiredSariel(c) ==
    /\ tpc = "done"
    /\ FirstSarielV2(real_campaigns) # 0
    /\ c.campaign_id = real_campaigns[FirstSarielV2(real_campaigns)].campaign_id

OrderedTopN ==
    /\ NonIncreasing(Presented)
    /\ Len(Presented) <= TopN
    /\ NonIncreasing(analyzed_campaigns)
    /\ IsPrefix(Presented, analyzed_campaigns)
    /\ Len(Presented) = TopN \/ Presented = analyzed_campaigns

\* C22 amended: the list a selector presents is sorted by desync_rate in
\* non-increasing order, has at most N entries (5 in campaign_selector_0.4,
\* 3 in campaign_selector_real), is a prefix of the sorted list of analyzed
\* campaigns, and every campaign in it passed the selector's minimum turn
\* count and minimum desync rate, except the Sariel v2 campaign that
\* campaign_selector_0.4 analyzes first and includes without the filter.
C22_TopNSortedFilteredButSariel ==
    Reported =>
        /\ OrderedTopN
        /\ \A i \in 1..Len(Presented) :
               PassedFilter(Presented[i]) \/ IsRequiredSariel(Presented[i])

\* campaign_selector_0.4 has analyzed more campaigns than it presents, of
\* different rates, and presents a Sariel v2 campaign that the filter would
\* have dropped
C22_Witness ==
    /\ tpc = "done"
    /\ Len(analyzed_campaigns) > TopCampaigns
    /\ \E i, j \in 1..Len(Presented) :
           RateGreater(Presented[i].desync_rate, Presented[j].desync_rate)
    /\ \E i \in 1..Len(Presented) :
           IsRequiredSariel(Presented[i]) /\ ~PassedFilter(Presented[i])

\* C22 as stated: every campaign presented passed the filter.
C22_TopNSortedFiltered ==
    Reported =>
        /\ OrderedTopN
        /\ \A i \in 1..Len(Presented) : PassedFilter(Presented[i])

\* some real campaign (no test campaign, at least 10 story entries) is named
\* Sariel v2
SarielV2Exists ==
    \E i \in 1..Len(all_campaigns) :
        /\ IsRealCampaign(all_campaigns[i])
        /\ IsSarielV2(NameOrTitle(all_campaigns[i]))

\* C25 as stated: in select_campaigns_for_testing, a real campaign whose
\* name contains "sariel" and "v2" is always among the top_campaigns
\* presented, whatever its turn count and rate and the other campaigns'
\* rates are, and sariel_v2_found is true exactly when such a campaign exists.
C25_SarielAlwaysPresented ==
    tpc = "done" =>
        /\ selection_report.sariel_v2_found <=> SarielV2Exists
        /\ SarielV2Exists =>
               \E i \in 1..Len(selection_report.top_campaigns) :
                   IsRequiredSariel(selection_report.top_campaigns[i])

(***************************************************************************)
(* C23: per-campaign analyses merge by simple reduction.                   *)
(***************************************************************************)
\* the campaign whose sessions are the sessions i..j of campaign_data
Part(i, j) == [campaign_data EXCEPT !.sessions = SubSeq(Sessions, i, j)]

\* the reduction of two reports: counters summed, pattern counts added per
\* category, pattern lists concatenated, entity sets united
Merged(a, b) ==
    [total_turns |-> a.summary.total_turns + b.summary.total_turns,
     desync_turns |-> a.summary.desync_turns + b.summary.desync_turns,
     pattern_breakdown |->
        [c \in DOMAIN a.pattern_breakdown \cup DOMAIN b.pattern_breakdown |->
            Get(a.pattern_breakdown, c, 0) + Get(b.pattern_breakdown, c, 0)],
     desync_patterns |-> a.desync_patterns \o b.desync_patterns,
     entity_list |-> a.entity_list \cup b.entity_list]

Reduced(r) ==
    [total_turns |-> r.summary.total_turns,
     desync_turns |-> r.summary.desync_turns,
     pattern_breakdown |-> [c \in DOMAIN r.pattern_breakdown |-> r.pattern_breakdown[c]],
     desync_patterns |-> r.desync_patterns,
     entity_list |-> r.entity_list]

\* C23: for any two campaigns A and B, the reports of A and of B, each
\* analyzed on a fresh analyzer, reduce (total_turns and desync_turns summed,
\* pattern counts added per category, pattern lists concatenated, entity
\* sets united) to the values of the report of the campaign whose sessions
\* are A's followed by B's, analyzed on one fresh analyzer.
\* The state checked is the one in which analyze_campaign has just returned
\* the first report.
C23_AnalysesMerge ==
    (apc = "idle" /\ Len(reports) = 1 /\ metrics # FreshMetrics) =>
        \A k \in 0..Len(Sessions) :
            Merged(FreshReport(Part(1, k)), FreshReport(Part(k + 1, Len(Sessions))))
                = Reduced(reports[1])

\* a campaign of two sessions, each with a desync of the same category and
\* the same missing entity, has been analyzed on a fresh analyzer
C23_Witness ==
    /\ Len(reports) = 1
    /\ Len(Sessions) = 2
    /\ Len(reports[1].desync_patterns) = 2
    /\ FreshReport(Part(1, 1)).summary.desync_turns = 1
    /\ FreshReport(Part(2, 2)).summary.desync_turns = 1
    /\ FreshReport(Part(1, 1)).desync_patterns[1].missing_entities
           = FreshReport(Part(2, 2)).desync_patterns[1].missing_entities
    /\ DOMAIN FreshReport(Part(1, 1)).pattern_breakdown
           = DOMAIN FreshReport(Part(2, 2)).pattern_breakdown

(***************************************************************************)
(* C24: a returned report is not changed by later calls.                   *)
(***************************************************************************)
\* what a reader of the report sees while the analyzer's metrics are
\* metrics_: a part held by reference shows the analyzer's object
ReportRead(report, metrics_) ==
    [report EXCEPT
        !.pattern_breakdown =
            IF "ref" \in DOMAIN @ THEN metrics_.pattern_counts ELSE @]

\* C24: a report returned by analyze_campaign is never changed afterwards:
\* every step of a later analyze_campaign call on the same analyzer leaves
\* the summary counters, pattern breakdown, desync_patterns list and entity
\* list of every earlier report as they were when it was returned.
C24_ReportNeverChanged ==
    [][\A i \in 1..Len(reports) :
           /\ i <= Len(reports')
           /\ ReportRead(reports'[i], metrics') = ReportRead(reports[i], metrics)]_vars

\* a second call on the same analyzer has added turns and a desync, and the
\* first report differs from the second and from the analyzer's counts
C24_Witness ==
    /\ Len(reports) = 2
    /\ apc = "idle"
    /\ reports[1].summary.total_turns > 0
    /\ reports[2].summary.total_turns > reports[1].summary.total_turns
    /\ reports[2].summary.desync_turns > reports[1].summary.desync_turns
    /\ reports[1].pattern_breakdown # metrics.pattern_counts
    /\ Len(reports[2].desync_patterns) > Len(reports[1].desync_patterns)

(***************************************************************************)
(* C26: the accounting of analyze_campaign in campaign_selector_0.4.       *)
(***************************************************************************)
\* story entry k (counted from 0) is a mapping with actor == "ai"
IsAiEntry(k) ==
    /\ ~IsStr(story_entries[k + 1])
    /\ Get(story_entries[k + 1].dict, "actor", "none") = "ai"

InAnalyzeCampaign == spc \in {"0.4", "done"}

Incidents == analysis.desync_incidents

SelectorAccounting ==
    InAnalyzeCampaign =>
        /\ analysis.total_turns =
               Cardinality({k \in 0..(entry_index - 1) : IsAiEntry(k)})
        /\ analysis.total_turns <= limit
        /\ Len(Incidents) <= analysis.total_turns
        /\ \A j \in 1..Len(Incidents) :
               /\ Incidents[j].turn \in 0..(entry_index - 1)
               /\ IsAiEntry(Incidents[j].turn)
               /\ Incidents[j].narrative_preview =
                      Preview(Get(story_entries[Incidents[j].turn + 1].dict, "text", <<>>),
                              PreviewLen)
        /\ \A j, k \in 1..Len(Incidents) : j < k => Incidents[j].turn < Incidents[k].turn

\* C26: in analyze_campaign of campaign_selector_0.4, for every story and
\* limit, total_turns counts only story entries that are mappings with
\* actor == "ai" and never exceeds limit; once the limit is reached no
\* further entry is analyzed; the number of desync incidents is at most
\* total_turns; each incident's turn is the position of its entry in the
\* story, and incidents appear in increasing position.
C26_LimitAndPositions ==
    /\ []SelectorAccounting
    /\ [][(spc = "0.4" /\ analysis.total_turns >= limit) =>
              /\ entry_index' = entry_index
              /\ analysis'.total_turns = analysis.total_turns
              /\ analysis'.desync_incidents = analysis.desync_incidents
              /\ spc' = "done"]_vars

\* the limit was reached with an AI entry left: the first entry gave the
\* only incident, at position 0, and the second entry, an AI entry whose
\* narrative would give an incident too, was not analyzed
C26_Witness ==
    /\ spc = "done"
    /\ limit = 1
    /\ analysis.total_turns = 1
    /\ entry_index = 1
    /\ Len(story_entries) = 2
    /\ IsAiEntry(1)
    /\ story_entries[2] = story_entries[1]
    /\ Len(Incidents) = 1
    /\ Incidents[1].turn = 0

(***************************************************************************)
(* C27: unconscious_omission outside combat.                               *)
(***************************************************************************)
\* the game state of the one turn of the campaign
TurnState == SessionTurns(1)[1].game_state

TurnPcNames ==
    LET pc_data == Get(TurnState, "player_character_data", EmptyDict)
    IN  IF HasName(pc_data) THEN {pc_data["name"]} ELSE {}

\* the keys of the NPC records with conscious == false
UnconsciousKeys ==
    LET npc_data == Get(TurnState, "npc_data", <<>>)
    IN  {npc_data[i].key : i \in {j \in 1..Len(npc_data) :
                                     ~Get(npc_data[j].info, "conscious", TRUE)}}

TurnInCombat == Get(Get(TurnState, "combat_state", EmptyDict), "in_combat", FALSE)

\* C27: outside combat an NPC that the extractor excluded for being
\* unconscious is never a missing entity (a missing entity with the key of
\* an unconscious NPC is the player character), so a pattern recorded by
\* CampaignAnalyzer for a non-combat turn has the category
\* unconscious_omission only when the player character's name equals the
\* key of an NPC record with conscious == false.
C27_UnconsciousOmissionOnlyForPc ==
    ~TurnInCombat =>
        \A i \in 1..Len(desync_patterns) :
            /\ Range(desync_patterns[i].missing) \cap UnconsciousKeys \subseteq TurnPcNames
            /\ desync_patterns[i].pattern_type = "unconscious_omission" =>
                   TurnPcNames \cap UnconsciousKeys # {}

\* outside combat, the player character Zara carries the key of an
\* unconscious NPC and is not named: the turn is an unconscious omission;
\* Finn, unconscious too, is not among the missing
C27_Witness ==
    /\ ~TurnInCombat
    /\ Len(desync_patterns) = 1
    /\ desync_patterns[1].pattern_type = "unconscious_omission"
    /\ TurnPcNames = {Zara}
    /\ UnconsciousKeys = {Zara, Finn}
    /\ desync_patterns[1].missing = <<Zara>>

(***************************************************************************)
(* C28: the expected list names no entity twice.                           *)
(***************************************************************************)
NoDuplicates(list) == \A i, j \in 1..Len(list) : i # j => list[i] # list[j]

\* C28 as stated: the list _extract_expected_entities returns contains no
\* name twice, for any game state, including when the player character's
\* name equals an NPC key, when a combat participant is already an expected
\* PC or NPC, and when the participants list names an entity twice.
C28_NoDuplicateExpected ==
    xpc \in {"analyzer", "done"} => NoDuplicates(expected_entities)

(***************************************************************************)
(* C29: after a campaign was analysed by a fresh analyzer,                 *)
(* export_campaign_snapshot gives exactly one desync_turns entry for       *)
(* every recorded pattern, in the order of the patterns, and the           *)
(* game_state and the narrative of an entry are those of the very turn     *)
(* that produced the pattern, also when turns or sessions lack their       *)
(* numbers or share them.                                                  *)
(***************************************************************************)
\* the positions <<session, turn>> of a campaign, in the order of the loops
RECURSIVE Positions(_, _, _)
Positions(sessions, s, t) ==
    IF s > Len(sessions)
    THEN <<>>
    ELSE IF t > Len(Get(sessions[s], "turns", <<>>))
    THEN Positions(sessions, s + 1, 1)
    ELSE <<(<<s, t>>)>> \o Positions(sessions, s, t + 1)

TurnAt(sessions, pos) == Get(sessions[pos[1]], "turns", <<>>)[pos[2]]

Produces(sessions, pos) ==
    _analyze_turn(FreshAnalyzer, Get(sessions[pos[1]], "session_number", 0),
                  TurnAt(sessions, pos)).desync_patterns # <<>>

\* the positions of the turns that produced a pattern, in order
ProducingTurns(sessions) ==
    SelectSeq(Positions(sessions, 1, 1), LAMBDA pos : Produces(sessions, pos))

OneEntryPerPattern(sessions) ==
    LET producing == ProducingTurns(sessions)
        entries == snapshot.desync_turns
    IN  /\ Len(producing) = Len(desync_patterns)
        /\ Len(entries) = Len(desync_patterns)
        /\ \A i \in 1..Len(entries) :
              /\ entries[i].session = desync_patterns[i].session
              /\ entries[i].turn = desync_patterns[i].turn
              /\ entries[i].desync_info = to_dict(desync_patterns[i])
              /\ entries[i].game_state = TurnAt(sessions, producing[i]).game_state
              /\ entries[i].narrative = TurnAt(sessions, producing[i]).narrative

C29_OneEntryPerPattern == snapshot # None => OneEntryPerPattern(Sessions)

(***************************************************************************)
(* C30: batch_generate returns exactly one response for every prompt, in   *)
(* the order of the prompts, whichever generations fail: a failed          *)
(* generation gives an error response of tokens_used 0 and the batch goes  *)
(* on, call_count grows by the number of successful generations only and   *)
(* total_tokens by exactly the sum of tokens_used of the successful        *)
(* responses.                                                              *)
(***************************************************************************)
IsErrorResponse(r) ==
    /\ StartsAt(r.text, 1, ErrorPrefix)
    /\ r.tokens_used = 0
    /\ r.generation_time_ms = 0

\* the pairs of the inputs for which the generation does not raise, each
\* with the text generated for it and the tokens of prompt and text
Generated ==
    {<<pair, _generate_mock_response(pair[1], pair[2]),
       WordCount(pair[1]) + WordCount(_generate_mock_response(pair[1], pair[2]))>> :
        pair \in {q \in PromptPairs : ~ResponseRaises(q[1], q[2])}}

\* r answers the pair: it is an error response, or the text generated for
\* the prompt under the approach with the tokens of prompt and text
Answers(r, pair) ==
    \/ IsErrorResponse(r)
    \/ /\ <<pair, r.text, r.tokens_used>> \in Generated
       /\ r.tokens_used > 0

Successful(list) == SelectSeq(list, LAMBDA r : ~IsErrorResponse(r))

RECURSIVE TokensOf(_)
TokensOf(list) == IF list = <<>> THEN 0 ELSE Head(list).tokens_used + TokensOf(Tail(list))

BatchShape ==
    gpc \in {"loop", "returned"} =>
        /\ Len(batch_results) = prompt_index - 1
        /\ gpc = "returned" => Len(batch_results) = Len(prompts)
        /\ \A i \in 1..Len(batch_results) : Answers(batch_results[i], prompts[i])
        /\ <<call_count - Len(Successful(batch_results)),
             total_tokens - TokensOf(Successful(batch_results))>> \in PriorUse

BatchAccounting ==
    batch_results' # batch_results =>
        /\ Len(batch_results') = Len(batch_results) + 1
        /\ SubSeq(batch_results', 1, Len(batch_results)) = batch_results
        /\ gpc' = "loop"
        /\ LET r == batch_results'[Len(batch_results')]
           IN  IF IsErrorResponse(r)
               THEN call_count' = call_count /\ total_tokens' = total_tokens
               ELSE /\ call_count' = call_count + 1
                    /\ total_tokens' = total_tokens + r.tokens_used

C30_BatchOneResponsePerPrompt == []BatchShape /\ [][BatchAccounting]_vars

\* a batch of two prompts on a used API has returned: the first generation
\* failed, the second succeeded
C30_Witness ==
    /\ gpc = "returned"
    /\ Len(prompts) = 2
    /\ IsErrorResponse(batch_results[1])
    /\ ~IsErrorResponse(batch_results[2])
    /\ call_count = 3
    /\ total_tokens = 25 + batch_results[2].tokens_used

=============================================================================
